---- MODULE Spec2Model ----
(***************************************************************************)
(* A model of the Planet feed cache: the typed record store (CachedInfo),  *)
(* NewsItem date resolution, Channel reconciliation (update,               *)
(* update_entries, cache_write) and the Planet query surface (channels,    *)
(* items).                                                                 *)
(*                                                                         *)
(* Representation.                                                         *)
(*  - A time is a number of seconds; the nine-component time tuple of a    *)
(*    time T is gmtime(T), and tuples compare as their times do.  The      *)
(*    channel model keeps T itself; the store model (SpecStore) keeps the  *)
(*    tuple and its text.                                                  *)
(*  - None (-1) is Python's None where a time or an order is expected,     *)
(*    NoneStr is None where a string is expected.                          *)
(*  - An order n stands for its text str(n); orders are compared as text.  *)
(***************************************************************************)
EXTENDS Integers, Sequences, FiniteSets, TLC

\* ------------------------------------------------------------------ bounds

MaxTime == 1
MaxOrder == 3
MaxEntries == 2
MaxThreshold == 1
MaxPending == 1

\* ------------------------------------------------------------------ values

None == -1
NoneStr == "None"
\* A text is its sequence of characters; NoText stands for a text that is
\* not there.
NoText == <<>>
Ids == {"A", "B", "C"}
Urls == {"u1", "u2"}
ConfiguredUrl == "u1"
Times == 0..MaxTime

STRING_T == "string"
DATE_T == "date"
NULL_T == "null"

\* The claimed dates get_date looks at, in its order of preference.
DateKeys == <<"updated", "modified", "published", "issued", "created">>

\* ------------------------------------------------------------------ text

RECURSIVE Digits(_)
\* str(n) for n >= 0, as its sequence of decimal digits.
Digits(n) == IF n < 10 THEN <<n>> ELSE Append(Digits(n \div 10), n % 10)

RECURSIVE SeqLess(_, _)
\* s < t for two Python strings (sequences of characters), lexicographic.
SeqLess(s, t) ==
    IF t = <<>> THEN FALSE
    ELSE IF s = <<>> THEN TRUE
    ELSE IF Head(s) # Head(t) THEN Head(s) < Head(t)
    ELSE SeqLess(Tail(s), Tail(t))

\* order strings as the sort compares them: str(a) < str(b).
OrderLess(a, b) == SeqLess(Digits(a), Digits(b))

RECURSIVE SetToSeq(_)
SetToSeq(S) ==
    IF S = {} THEN <<>>
    ELSE LET x == CHOOSE y \in S : TRUE IN <<x>> \o SetToSeq(S \ {x})

Range(s) == {s[i] : i \in 1..Len(s)}

Restrict(f, S) == [x \in S |-> f[x]]

\* ------------------------------------------------------ typed record store
\* A record (CachedInfo) is a function from its keys to [type, value]: the
\* _type and _value dictionaries.  The value of a date key is its time; the
\* value of "order" and "next_order" is the number whose text it is.

NumKeys ==
    {"date", "order", "next_order", "last_updated"} \cup Range(DateKeys)

NullValue(key) == IF key \in NumKeys THEN None ELSE ""

has_key(rec, key) == key \in DOMAIN rec

key_type(rec, key) == rec[key].type

set_as_string(rec, key, value) ==
    (key :> [type |-> STRING_T, value |-> value]) @@ rec

set_as_date(rec, key, value) ==
    (key :> [type |-> DATE_T, value |-> value]) @@ rec

set_as_null(rec, key) ==
    (key :> [type |-> NULL_T, value |-> NullValue(key)]) @@ rec

\* rec.key for a key that has no get_KEY method: None for a NULL key.
get(rec, key) ==
    IF key_type(rec, key) = NULL_T THEN NullValue(key) ELSE rec[key].value

del_key(rec, key) == Restrict(rec, DOMAIN rec \ {key})

\* A channel's durable store (its shelve file), record by record: a function
\* from the records it holds to what is stored of each, the channel's own
\* record under Root and each item's under the item's id.  What is stored of
\* a record is the keys it was last written with, each with its type and
\* value (the durable keys "<id> <key>" and "<id> <key> type"; SpecStore
\* models that layout key by key).
Root == ""

\* CachedInfo.cache_clear: every key of the record leaves the store.
cache_clear(cache, id) == Restrict(cache, DOMAIN cache \ {id})

\* CachedInfo.cache_write: the record's stored keys become its present keys.
cache_write_record(cache, id, rec) ==
    [i \in DOMAIN cache \cup {id} |-> IF i = id THEN rec ELSE cache[i]]

\* CachedInfo.cache_read: the stored keys are loaded over the record's own.
cache_read(cache, id, rec) ==
    IF id \in DOMAIN cache THEN cache[id] @@ rec ELSE rec

\* ----------------------------------------------- the durable map, key by key
\* The durable map of a store holds text under text keys.  A durable key is
\* the sequence of its space-separated parts: <<"A", "title">> is the key
\* "A title" and <<"A", "title", "type">> the key "A title type".  A text is
\* its sequence of characters.  A record under test is [id, fields, dirty,
\* deleted]: its overlay (field -> [type, value], a DATE value being its
\* nine-component tuple) and the fields to write and to remove at the next
\* flush.

DigitChars == <<"0", "1", "2", "3", "4", "5", "6", "7", "8", "9">>

\* str(n)
str(n) ==
    LET digits(m) == [k \in 1..Len(Digits(m)) |-> DigitChars[Digits(m)[k] + 1]]
    IN IF n < 0 THEN <<"-">> \o digits(0 - n) ELSE digits(n)

RECURSIVE join(_, _)
\* sep.join(parts)
join(parts, sep) ==
    IF parts = <<>> THEN <<>>
    ELSE IF Len(parts) = 1 THEN parts[1]
    ELSE parts[1] \o <<sep>> \o join(Tail(parts), sep)

RECURSIVE split(_, _)
\* text.split(sep)
split(text, sep) ==
    IF \A k \in 1..Len(text) : text[k] # sep THEN <<text>>
    ELSE LET k == CHOOSE j \in 1..Len(text) :
                    text[j] = sep /\ \A i \in 1..(j - 1) : text[i] # sep
         IN <<SubSeq(text, 1, k - 1)>> \o split(SubSeq(text, k + 1, Len(text)), sep)

RECURSIVE natural(_)
natural(text) ==
    IF text = <<>> THEN 0
    ELSE natural(SubSeq(text, 1, Len(text) - 1)) * 10
         + ((CHOOSE d \in 1..10 : DigitChars[d] = text[Len(text)]) - 1)

\* int(text)
int(text) == IF text[1] = "-" THEN 0 - natural(Tail(text)) ELSE natural(text)

encode_date_commas(date) == join([k \in 1..Len(date) |-> str(date[k])], ",")

\* The text a DATE is stored as: its nine integers joined by single spaces.
encode_date(date) == join([k \in 1..Len(date) |-> str(date[k])], " ")

\* The time tuple a stored DATE is read back as.
decode_date(text) ==
    LET parts == split(text, " ") IN [k \in 1..Len(parts) |-> int(parts[k])]

\* The durable text of a typed value, and the typed value of a durable text.
encode(field) ==
    IF field.type = DATE_T THEN encode_date(field.value) ELSE field.value

decode(type, text) == IF type = DATE_T THEN decode_date(text) ELSE text

\* The type as the durable map holds it.
type_text(type) == IF type = DATE_T THEN <<"d", "a", "t", "e">>
                   ELSE <<"s", "t", "r", "i", "n", "g">>

text_type(text) == IF text = <<"d", "a", "t", "e">> THEN DATE_T ELSE STRING_T

\* A new record bound to id, before load().
new_record(id) ==
    [id |-> id, fields |-> [k \in {} |-> 0], dirty |-> {}, deleted |-> {}]

\* setString / setDate: the overlay only.
record_set(r, key, type, value) ==
    [r EXCEPT !.fields = (key :> [type |-> type, value |-> value]) @@ r.fields,
              !.dirty = r.dirty \cup {key},
              !.deleted = r.deleted \ {key}]

record_del_key_overlay_only(r, key) ==
    [r EXCEPT !.fields = Restrict(r.fields, DOMAIN r.fields \ {key}),
              !.dirty = r.dirty \ {key}]

\* deleteKey: out of the overlay, and queued for removal.
record_del_key(r, key) ==
    [r EXCEPT !.fields = Restrict(r.fields, DOMAIN r.fields \ {key}),
              !.dirty = r.dirty \ {key},
              !.deleted = r.deleted \cup {key}]

\* get / keyType: NULL for a key the record has not.
record_get(r, key) ==
    IF key \in DOMAIN r.fields THEN r.fields[key].value ELSE NoneStr

record_key_type(r, key) ==
    IF key \in DOMAIN r.fields THEN r.fields[key].type ELSE NULL_T

\* The durable keys of the record's field `key`, and the key that holds the
\* names of the record's fields (the key Channel.cache_read_entries finds an
\* item by: one without a space).
value_key(id, key) == <<id, key>>

type_key(id, key) == <<id, key, "type">>

index_key(id) == <<id>>

\* The names of the record's fields, joined by single spaces.
index_text(r) ==
    LET keys == SetToSeq(DOMAIN r.fields)
    IN join([k \in 1..Len(keys) |-> <<keys[k]>>], " ")

\* flush: the dirty fields are written, value and type, the queued fields
\* removed: [store, record].
flush_untyped(store, r) ==
    LET gone == {value_key(r.id, k) : k \in r.deleted}
                    \cup {type_key(r.id, k) : k \in r.deleted}
        kept == Restrict(store, DOMAIN store \ gone)
        written == [dk \in {value_key(r.id, k) : k \in r.dirty} |->
                        encode(r.fields[dk[2]])]
    IN [store |-> (index_key(r.id) :> index_text(r)) @@ written @@ kept,
        record |-> [r EXCEPT !.dirty = {}, !.deleted = {}]]

flush(store, r) ==
    LET gone == {value_key(r.id, k) : k \in r.deleted}
                    \cup {type_key(r.id, k) : k \in r.deleted}
        kept == Restrict(store, DOMAIN store \ gone)
        written == [dk \in {value_key(r.id, k) : k \in r.dirty}
                            \cup {type_key(r.id, k) : k \in r.dirty} |->
                        IF Len(dk) = 2 THEN encode(r.fields[dk[2]])
                        ELSE type_text(r.fields[dk[2]].type)]
    IN [store |-> (index_key(r.id) :> index_text(r)) @@ written @@ kept,
        record |-> [r EXCEPT !.dirty = {}, !.deleted = {}]]

\* load: the overlay of a new record bound to id, from the durable keys of
\* its fields.
load(store, id) ==
    LET names == IF index_key(id) \in DOMAIN store
                 THEN split(store[index_key(id)], " ") ELSE <<>>
        keys == {names[k][1] : k \in {j \in 1..Len(names) : names[j] # <<>>}}
    IN [id |-> id,
        fields |-> [k \in {x \in keys : value_key(id, x) \in DOMAIN store} |->
            LET type == IF type_key(id, k) \in DOMAIN store
                        THEN text_type(store[type_key(id, k)]) ELSE STRING_T
            IN [type |-> type, value |-> decode(type, store[value_key(id, k)])]],
        dirty |-> {}, deleted |-> {}]

clear_values_only(store, r) ==
    Restrict(store, {dk \in DOMAIN store : dk[1] # r.id \/ Len(dk) = 3})

\* clear: every durable key of the record leaves the map.
clear(store, r) ==
    Restrict(store, {dk \in DOMAIN store : dk[1] # r.id})

\* ------------------------------------------------------------------ NewsItem
\* An item is its record.  Of the keys NewsItem sets, the model keeps those
\* the channel and the planet read: date, order, hidden, the claimed dates,
\* title.  The item's id is its key in the channel's _items.

\* NewsItem(channel, id): date and order start as None, then cache_read.
NewsItem(cache, id) ==
    cache_read(cache, id,
               set_as_null(set_as_null([k \in {} |-> 0], "date"), "order"))

RECURSIVE FirstClaim(_, _)
\* The first of the claimed dates the item has, None if it has none.
FirstClaim(item, i) ==
    IF i > Len(DateKeys) THEN None
    ELSE IF has_key(item, DateKeys[i]) THEN item[DateKeys[i]].value
    ELSE FirstClaim(item, i + 1)

\* get_date("date"): [item, date], the item with the date written back.
\* `updated` is the channel's updated time (None when it has none).
get_date_unclamped(item, updated) ==
    LET claim == FirstClaim(item, 1) IN
    IF claim # None
    THEN [item |-> set_as_date(item, "date", claim), date |-> claim]
    ELSE IF has_key(item, "date") /\ key_type(item, "date") # NULL_T
    THEN [item |-> item, date |-> item["date"].value]
    ELSE IF updated # None
    THEN [item |-> set_as_date(item, "date", updated), date |-> updated]
    ELSE [item |-> item, date |-> None]

get_date_cached_first(item, updated) ==
    LET claim == FirstClaim(item, 1) IN
    IF has_key(item, "date") /\ key_type(item, "date") # NULL_T
    THEN [item |-> item, date |-> item["date"].value]
    ELSE IF claim # None
    THEN LET date == IF updated # None /\ claim > updated THEN updated ELSE claim
         IN [item |-> set_as_date(item, "date", date), date |-> date]
    ELSE IF updated # None
    THEN [item |-> set_as_date(item, "date", updated), date |-> updated]
    ELSE [item |-> item, date |-> None]

get_date(item, updated) ==
    LET claim == FirstClaim(item, 1) IN
    IF claim # None
    THEN LET date == IF updated # None /\ claim > updated THEN updated ELSE claim
         IN [item |-> set_as_date(item, "date", date), date |-> date]
    ELSE IF has_key(item, "date") /\ key_type(item, "date") # NULL_T
    THEN [item |-> item, date |-> item["date"].value]
    ELSE IF updated # None
    THEN [item |-> set_as_date(item, "date", updated), date |-> updated]
    ELSE [item |-> item, date |-> None]

\* time.mktime of a time tuple: increasing in the time it stands for.
mktime(date) == date

\* The times time.mktime has a value for (those of the platform's time_t,
\* which on POSIX start before the epoch); on any other it raises
\* OverflowError.
EpochMin == -3

EpochMax == 100000

Representable(date) == EpochMin <= date /\ date <= EpochMax

\* try: return time.mktime(self.date) / except OverflowError: return 0.0
mktime_or_zero(date) == IF Representable(date) THEN mktime(date) ELSE 0

\* item.time_since_epoch.  self.date goes through CachedInfo.get, which calls
\* get_date("date") (as item.content calls get_content: test_newsitem_from_rss
\* reads the summary through it), so reading it resolves and stores the date.
time_since_epoch(item, updated) == mktime_or_zero(get_date(item, updated).date)

\* item.order
order(item) == get(item, "order")

RECURSIVE SetDates(_, _, _)
\* The *_parsed keys of an entry, stored with set_as_date.
SetDates(item, dates, keys) ==
    IF keys = {} THEN item
    ELSE LET k == CHOOSE x \in keys : TRUE
         IN SetDates(set_as_date(item, k, dates[k]), dates, keys \ {k})

\* NewsItem.update(entry)
item_update(item, entry, updated) ==
    LET a == SetDates(item, entry.dates, DOMAIN entry.dates)
        b == IF entry.title # NoText THEN set_as_string(a, "title", entry.title) ELSE a
    IN get_date(b, updated).item

\* ------------------------------------------------------------------ Channel
\* A channel object is [rec, items, expired]: its own record, _items (item
\* id -> item record) and _expired (the ids of the items queued for clearing).

\* Channel.cache_read_entries: the durable keys without a space that are not
\* keys of the channel itself are the ids of its items.
cache_read_entries(cache, rec) ==
    LET ids == {i \in DOMAIN cache \ {Root} : ~has_key(rec, i)}
    IN [i \in ids |-> NewsItem(cache, i)]

\* Channel.__init__(planet, url) on the store of that url.
Channel(cache, url) ==
    LET r0 == set_as_string(
                set_as_null(set_as_null(set_as_null(set_as_null(set_as_null(
                set_as_null(set_as_null(set_as_null(
                    set_as_string([k \in {} |-> 0], "url", url),
                    "url_etag"), "url_status"), "url_modified"), "name"),
                    "updated"), "last_updated"), "filter"), "exclude"),
                "next_order", 0)
        rec == cache_read(cache, Root, r0)
    IN [rec |-> rec, items |-> cache_read_entries(cache, rec), expired |-> <<>>]

\* (time_since_epoch, order) of a is smaller than that of b, as the tuples of
\* Channel.items and Planet.items compare: the order as text.
KeyLess(items, a, b, updated) ==
    LET ta == time_since_epoch(items[a], updated)
        tb == time_since_epoch(items[b], updated)
    IN ta < tb \/ (ta = tb /\ OrderLess(order(items[a]), order(items[b])))

RECURSIVE NewestFirst(_, _, _)
\* items.sort(); items.reverse() over the ids in S.
NewestFirst(items, S, updated) ==
    IF S = {} THEN <<>>
    ELSE LET m == CHOOSE x \in S : \A y \in S \ {x} : ~KeyLess(items, x, y, updated)
         IN <<m>> \o NewestFirst(items, S \ {m}, updated)

\* The items after time_since_epoch has been read on those in S.
Resolved(items, S, updated) ==
    [i \in DOMAIN items |->
        IF i \in S THEN get_date(items[i], updated).item ELSE items[i]]

Shown(items, hidden) ==
    {i \in DOMAIN items : hidden \/ ~has_key(items[i], "hidden")}

\* Channel.items(hidden, sorted=True): [list, items].
channel_items(items, hidden, updated) ==
    [list |-> NewestFirst(items, Shown(items, hidden), updated),
     items |-> Resolved(items, Shown(items, hidden), updated)]

\* The id update_entries gives an entry, NoneStr when it has none.
entry_id(entry) ==
    IF entry.id # NoneStr THEN entry.id
    ELSE IF entry.link # NoneStr THEN entry.link
    ELSE NoneStr

\* entry.summary, NoText for an entry without one.
summary(entry) == IF "summary" \in DOMAIN entry THEN entry.summary ELSE NoText

\* An entry with neither id nor link but a title, or else a summary, sends
\* update_entries to md5.new(...): hashlib's md5 has no attribute `new`, and
\* the AttributeError leaves update_entries.
entry_raises(entry) ==
    /\ entry.id = NoneStr
    /\ entry.link = NoneStr
    /\ entry.title # NoText \/ summary(entry) # NoText

\* The index of the first entry update_entries raises on, 0 when there is none.
FirstRaise(entries) ==
    IF \E k \in 1..Len(entries) : entry_raises(entries[k])
    THEN CHOOSE k \in 1..Len(entries) :
            entry_raises(entries[k]) /\ \A j \in 1..(k - 1) : ~entry_raises(entries[j])
    ELSE 0

\* "Hide excess items the first time through": whether update_entries hides
\* the item of the n-th entry it has taken.
hide_excess_from_threshold(last_updated, new_feed_items, n) ==
    last_updated = None /\ new_feed_items # 0 /\ n >= new_feed_items

hide_excess(last_updated, new_feed_items, n) ==
    last_updated = None /\ new_feed_items # 0 /\ n > new_feed_items

RECURSIVE MergeEntries(_, _, _, _, _)
\* The loop of update_entries over the entries from the i-th on, as far as
\* the first entry that raises;
\* st = [items, new_items, feed_items], env = [updated, last_updated, nfi].
MergeEntries(cache, st, entries, i, env) ==
    IF i > Len(entries) THEN st
    ELSE IF entry_raises(entries[i]) THEN st
    ELSE LET id == entry_id(entries[i]) IN
         IF id = NoneStr THEN MergeEntries(cache, st, entries, i + 1, env)
         ELSE LET isnew == id \notin DOMAIN st.items
                  item0 == IF isnew THEN NewsItem(cache, id) ELSE st.items[id]
                  item1 == item_update(item0, entries[i], env.updated)
                  feed == Append(st.feed_items, id)
                  item2 == IF hide_excess(env.last_updated, env.nfi, Len(feed))
                           THEN set_as_string(item1, "hidden", "yes")
                           ELSE item1
              IN MergeEntries(cache,
                     [items |-> (id :> item2) @@ st.items,
                      new_items |-> IF isnew THEN Append(st.new_items, id)
                                    ELSE st.new_items,
                      feed_items |-> feed],
                     entries, i + 1, env)

in_feed_order(s) == s

Reverse(s) == [i \in 1..Len(s) |-> s[Len(s) + 1 - i]]

AssignOrdersOnce(items, new_items, i, next_order) ==
    IF Len(new_items) = 0 THEN [items |-> items, next_order |-> next_order]
    ELSE [items |-> [x \in DOMAIN items |->
                        IF x \in Range(new_items)
                        THEN set_as_string(items[x], "order", next_order + 1)
                        ELSE items[x]],
          next_order |-> next_order + 1]

RECURSIVE AssignOrders(_, _, _, _)
\* item.order = self.next_order = str(int(self.next_order) + 1), for each of
\* new_items (already reversed): [items, next_order].
AssignOrders(items, new_items, i, next_order) ==
    IF i > Len(new_items) THEN [items |-> items, next_order |-> next_order]
    ELSE AssignOrders(
            (new_items[i] :> set_as_string(items[new_items[i]], "order", next_order + 1))
                @@ items,
            new_items, i + 1, next_order + 1)

RECURSIVE SweepIgnoringStatus(_, _, _, _, _)
SweepIgnoringStatus(list, i, feed_count, feed_items, url_status) ==
    IF i > Len(list) \/ feed_count < 1 THEN <<>>
    ELSE IF list[i] \in Range(feed_items)
    THEN SweepIgnoringStatus(list, i + 1, feed_count - 1, feed_items, url_status)
    ELSE <<list[i]>> \o SweepIgnoringStatus(list, i + 1, feed_count, feed_items, url_status)

RECURSIVE SweepStopsEarly(_, _, _, _, _)
SweepStopsEarly(list, i, feed_count, feed_items, url_status) ==
    IF i > Len(list) \/ feed_count < 2 THEN <<>>
    ELSE IF list[i] \in Range(feed_items)
    THEN SweepStopsEarly(list, i + 1, feed_count - 1, feed_items, url_status)
    ELSE IF url_status # "226"
    THEN <<list[i]>> \o SweepStopsEarly(list, i + 1, feed_count, feed_items, url_status)
    ELSE SweepStopsEarly(list, i + 1, feed_count, feed_items, url_status)

RECURSIVE SweepOnceCountIsZero(_, _, _, _, _)
SweepOnceCountIsZero(list, i, feed_count, feed_items, url_status) ==
    IF i > Len(list) THEN <<>>
    ELSE IF list[i] \in Range(feed_items)
    THEN SweepOnceCountIsZero(list, i + 1, feed_count - 1, feed_items, url_status)
    ELSE IF feed_count < 1 /\ url_status # "226"
    THEN <<list[i]>> \o SweepOnceCountIsZero(list, i + 1, feed_count, feed_items, url_status)
    ELSE SweepOnceCountIsZero(list, i + 1, feed_count, feed_items, url_status)

RECURSIVE Sweep(_, _, _, _, _)
\* The expiration loop of update_entries from the i-th item of the sorted
\* list on: the ids it removes, in the order it removes them.
Sweep(list, i, feed_count, feed_items, url_status) ==
    IF i > Len(list) \/ feed_count < 1 THEN <<>>
    ELSE IF list[i] \in Range(feed_items)
    THEN Sweep(list, i + 1, feed_count - 1, feed_items, url_status)
    ELSE IF url_status # "226"
    THEN <<list[i]>> \o Sweep(list, i + 1, feed_count, feed_items, url_status)
    ELSE Sweep(list, i + 1, feed_count, feed_items, url_status)

updated_only(rec, tnow) == set_as_date(rec, "updated", tnow)

\* self.last_updated = self.updated; self.updated = time.gmtime()
shift_updated(rec, tnow) ==
    set_as_date(
        IF get(rec, "updated") = None THEN set_as_null(rec, "last_updated")
        ELSE set_as_date(rec, "last_updated", get(rec, "updated")),
        "updated", tnow)

update_entries_unguarded(cache, ch, entries, tnow, nfi) ==
    [ch EXCEPT !.rec = shift_updated(ch.rec, tnow)]

\* Channel.update_entries(entries) at time tnow, with planet.new_feed_items
\* nfi: the channel object afterwards; when an entry raises, the object as
\* the exception leaves it.
update_entries(cache, ch, entries, tnow, nfi) ==
    IF Len(entries) = 0 THEN ch
    ELSE
    LET last_updated == get(ch.rec, "updated")
        rec1 == shift_updated(ch.rec, tnow)
        merged == MergeEntries(cache,
                      [items |-> ch.items, new_items |-> <<>>, feed_items |-> <<>>],
                      entries, 1,
                      [updated |-> tnow, last_updated |-> last_updated, nfi |-> nfi])
        ordered == AssignOrders(merged.items, Reverse(merged.new_items), 1,
                                get(rec1, "next_order"))
        rec2 == set_as_string(rec1, "next_order", ordered.next_order)
        view == channel_items(ordered.items, FALSE, tnow)
        gone == Sweep(view.list, 1, Len(merged.feed_items), merged.feed_items,
                      get(rec2, "url_status"))
    IN IF FirstRaise(entries) # 0
       THEN [rec |-> rec1, items |-> merged.items, expired |-> ch.expired]
       ELSE [rec |-> rec2,
             items |-> Restrict(view.items, DOMAIN view.items \ Range(gone)),
             expired |-> ch.expired \o gone]

RECURSIVE WriteItems(_, _, _)
\* item.cache_write(sync=False) for each item of _items.
WriteItems(cache, items, S) ==
    IF S = {} THEN cache
    ELSE LET i == CHOOSE x \in S : TRUE
         IN WriteItems(cache_write_record(cache, i, items[i]), items, S \ {i})

RECURSIVE ClearItems(_, _, _)
\* item.cache_clear(sync=False) for each item of _expired.
ClearItems(cache, expired, i) ==
    IF i > Len(expired) THEN cache
    ELSE ClearItems(cache_clear(cache, expired[i]), expired, i + 1)

RECURSIVE ItemWrites(_)
\* item.cache_write(sync=False) for each item of S, as the calls made.
ItemWrites(S) ==
    IF S = {} THEN <<>>
    ELSE LET i == CHOOSE x \in S : TRUE
         IN <<[op |-> "cache_write", id |-> i, sync |-> FALSE]>> \o ItemWrites(S \ {i})

\* item.cache_clear(sync=False) for each item of _expired, as the calls made.
ItemClears(expired) ==
    [k \in 1..Len(expired) |-> [op |-> "cache_clear", id |-> expired[k], sync |-> FALSE]]

cache_write_ops_record_first(ch, sync) ==
    <<[op |-> "cache_write", id |-> Root, sync |-> sync]>>
        \o ItemWrites(DOMAIN ch.items) \o ItemClears(ch.expired)

\* Channel.cache_write(sync): the calls it makes on the store, in their order.
cache_write_ops(ch, sync) ==
    ItemWrites(DOMAIN ch.items) \o ItemClears(ch.expired)
        \o <<[op |-> "cache_write", id |-> Root, sync |-> sync]>>

RECURSIVE ApplyOps(_, _, _, _)
\* The store after the calls of ops from the i-th on, made for the channel ch.
ApplyOps(cache, ch, ops, i) ==
    IF i > Len(ops) THEN cache
    ELSE IF ops[i].op = "cache_clear"
    THEN ApplyOps(cache_clear(cache, ops[i].id), ch, ops, i + 1)
    ELSE ApplyOps(cache_write_record(cache, ops[i].id,
                      IF ops[i].id = Root THEN ch.rec ELSE ch.items[ops[i].id]),
                  ch, ops, i + 1)

\* Channel.cache_write(): [cache, ch].
cache_write(cache, ch) ==
    LET c1 == WriteItems(cache, ch.items, DOMAIN ch.items)
        c2 == ClearItems(c1, ch.expired, 1)
        c3 == cache_write_record(c2, Root, ch.rec)
    IN [cache |-> c3, ch |-> [ch EXCEPT !.expired = <<>>]]

\* The status update() records for a fetch result: info.status when the
\* parser gives one, else "200" with entries, "408" for a Timeout, else "500".
url_status_of(info) ==
    IF info.status # NoneStr THEN info.status
    ELSE IF Len(info.entries) > 0 THEN "200"
    ELSE IF info.bozo = "Timeout" THEN "408"
    ELSE "500"

\* int(self.url_status)
StatusInt(status) ==
    CASE status = "200" -> 200 [] status = "226" -> 226 [] status = "301" -> 301
      [] status = "304" -> 304 [] status = "404" -> 404 [] status = "408" -> 408
      [] status = "410" -> 410 [] status = "500" -> 500

\* self.KEY = value for a string or None.
set_string_or_null(rec, key, value) ==
    IF value = NoneStr THEN set_as_null(rec, key) ELSE set_as_string(rec, key, value)

\* Channel.update_info(feed): of the feed's keys, the title.
update_info(rec, feed) ==
    IF feed.title # NoText THEN set_as_string(rec, "title", feed.title) ELSE rec

\* What update() does for a status that is not merged: "return" leaves the
\* channel as it is, "gone" writes it, "merge" goes on to the merge.
update_branch_timeout_merges(status, moved) ==
    IF moved THEN "merge"
    ELSE IF status = "304" THEN "return"
    ELSE IF status = "410" THEN "gone"
    ELSE IF status = "408" THEN "merge"
    ELSE IF StatusInt(status) >= 400 THEN "return"
    ELSE "merge"

update_branch_gone_returns(status, moved) ==
    IF moved THEN "merge"
    ELSE IF status = "304" THEN "return"
    ELSE IF status = "410" THEN "return"
    ELSE IF status = "408" THEN "return"
    ELSE IF StatusInt(status) >= 400 THEN "return"
    ELSE "merge"

update_branch_moved_returns(status, moved) ==
    IF moved THEN "return"
    ELSE IF status = "304" THEN "return"
    ELSE IF status = "410" THEN "gone"
    ELSE IF status = "408" THEN "return"
    ELSE IF StatusInt(status) >= 400 THEN "return"
    ELSE "merge"

update_branch(status, moved) ==
    IF moved THEN "merge"
    ELSE IF status = "304" THEN "return"
    ELSE IF status = "410" THEN "gone"
    ELSE IF status = "408" THEN "return"
    ELSE IF StatusInt(status) >= 400 THEN "return"
    ELSE "merge"

\* The end of update() after update_entries: cache_write(), which an
\* exception of update_entries leaves out.
after_entries(cache, ch, raised) ==
    IF raised THEN [cache |-> cache, ch |-> ch] ELSE cache_write(cache, ch)

\* Channel.update() when the fetch gives info at time tnow:
\* [cache, ch, files], files being the names the store is linked under.
update(cache, ch, files, info, tnow, nfi) ==
    LET status == url_status_of(info)
        moved == status = "301" /\ Len(info.entries) > 0
        rec1 == set_as_string(ch.rec, "url_status", status)
        branch == update_branch(status, moved)
    IN
    IF branch = "return"
    THEN [cache |-> cache, ch |-> [ch EXCEPT !.rec = rec1], files |-> files]
    ELSE IF branch = "gone"
    THEN LET w == cache_write(cache, [ch EXCEPT !.rec = rec1])
         IN [cache |-> w.cache, ch |-> w.ch, files |-> files]
    ELSE
    LET rec2 == IF moved THEN set_as_string(rec1, "url", info.url) ELSE rec1
        rec3 == set_string_or_null(rec2, "url_etag", info.etag)
        rec4 == set_string_or_null(rec3, "url_modified", info.modified)
        rec5 == update_info(rec4, info.feed)
        ch2 == update_entries(cache, [ch EXCEPT !.rec = rec5], info.entries, tnow, nfi)
        w == after_entries(cache, ch2, FirstRaise(info.entries) # 0)
    IN [cache |-> w.cache, ch |-> w.ch,
        files |-> IF moved THEN files \cup {info.url} ELSE files]

\* update() ends with the exception of update_entries.
update_raises(info) ==
    LET status == url_status_of(info)
    IN /\ update_branch(status, status = "301" /\ Len(info.entries) > 0) = "merge"
       /\ FirstRaise(info.entries) # 0

\* ------------------------------------------------------------------ Planet
\* A planet is [channels, filter, exclude]: _channels (the subscribed channel
\* objects, in the order they were subscribed) and its two patterns.  A
\* subscribed channel is [rec, items, keys], keys being the order in which
\* _items holds its items.  A text is its sequence of characters; a pattern
\* is one letter, NoneStr when there is none.

DAY == 84600

lower(c) == IF c = "X" THEN "x" ELSE IF c = "Y" THEN "y" ELSE c

\* ord(c) for the letters the model uses.
ord(c) ==
    CASE c = "T" -> 84 [] c = "X" -> 88 [] c = "Y" -> 89
      [] c = "a" -> 97 [] c = "b" -> 98 [] c = "x" -> 120 [] c = "y" -> 121

\* s < t for two texts.
TextLess(s, t) ==
    SeqLess([k \in 1..Len(s) |-> ord(s[k])], [k \in 1..Len(t) |-> ord(t[k])])

\* re.compile(pattern, re.IGNORECASE).search(text) for a one-letter pattern.
search(pattern, text) ==
    \E k \in 1..Len(text) : lower(text[k]) = lower(pattern)

\* Channel.get_name
get_name(rec) ==
    IF has_key(rec, "name") /\ key_type(rec, "name") # NULL_T THEN rec["name"].value
    ELSE IF has_key(rec, "title") /\ key_type(rec, "title") # NULL_T
    THEN rec["title"].value
    ELSE <<>>

\* NewsItem.get_content
get_content(item) ==
    IF has_key(item, "content") /\ key_type(item, "content") # NULL_T
    THEN item["content"].value
    ELSE IF has_key(item, "tagline") /\ key_type(item, "tagline") # NULL_T
    THEN item["tagline"].value
    ELSE IF has_key(item, "summary") /\ key_type(item, "summary") # NULL_T
    THEN item["summary"].value
    ELSE <<>>

\* Channel.has_item, which is also what `key in channel` asks.
has_item(channel, id) == id \in DOMAIN channel.items

\* s.sort() for a list of channel indices compared by display name: stable.
RECURSIVE sort_by_name(_, _)
sort_by_name(P, s) ==
    IF s = <<>> THEN <<>>
    ELSE LET x == s[Len(s)]
             rest == sort_by_name(P, SubSeq(s, 1, Len(s) - 1))
             name(c) == get_name(P.channels[c].rec)
         IN SelectSeq(rest, LAMBDA y : ~TextLess(name(x), name(y))) \o <<x>>
            \o SelectSeq(rest, LAMBDA y : TextLess(name(x), name(y)))

\* Planet.channels(hidden, sorted): the channels as their indices.
planet_channels(P, hidden, sorted) ==
    LET shown == SelectSeq([c \in 1..Len(P.channels) |-> c],
                           LAMBDA c : hidden \/ ~has_item(P.channels[c], "hidden"))
    IN IF sorted THEN sort_by_name(P, shown) ELSE shown

\* The channels Planet.items goes through when it is given none.
default_channels_by_name(P, hidden) == planet_channels(P, hidden, TRUE)

default_channels(P, hidden) == planet_channels(P, hidden, FALSE)

passes_skipping_channel_exclude(P, hidden, c, id) ==
    LET item == P.channels[c].items[id]
        title == IF has_key(item, "title") THEN get(item, "title") ELSE <<>>
        content == get_content(item)
        found(pattern) == search(pattern, title) \/ search(pattern, content)
        cfilter == get(P.channels[c].rec, "filter")
    IN /\ hidden \/ ~has_key(item, "hidden")
       /\ P.filter # NoneStr => found(P.filter)
       /\ P.exclude # NoneStr => ~found(P.exclude)
       /\ cfilter \notin {NoneStr, ""} => found(cfilter)

\* The tests an item goes through before Planet.items looks at its id: the
\* hidden key, then the planet's and the channel's filter and exclude.
passes(P, hidden, c, id) ==
    LET item == P.channels[c].items[id]
        title == IF has_key(item, "title") THEN get(item, "title") ELSE <<>>
        content == get_content(item)
        found(pattern) == search(pattern, title) \/ search(pattern, content)
        cfilter == get(P.channels[c].rec, "filter")
        cexclude == get(P.channels[c].rec, "exclude")
    IN /\ hidden \/ ~has_key(item, "hidden")
       /\ P.filter # NoneStr => found(P.filter)
       /\ P.exclude # NoneStr => ~found(P.exclude)
       /\ cfilter \notin {NoneStr, ""} => found(cfilter)
       /\ cexclude \notin {NoneStr, ""} => ~found(cexclude)

\* `item.id not in seen_guids`
not_seen_ever(seen_guids, id) == TRUE

not_seen(seen_guids, id) == id \notin seen_guids

\* <<c, id>> for every item of every channel of chans, in the order the two
\* loops of Planet.items meet them.
RECURSIVE candidates(_, _, _)
candidates(P, chans, i) ==
    IF i > Len(chans) THEN <<>>
    ELSE [k \in 1..Len(P.channels[chans[i]].keys) |->
            <<chans[i], P.channels[chans[i]].keys[k]>>]
         \o candidates(P, chans, i + 1)

\* The loops of Planet.items from the i-th candidate on: the items appended.
RECURSIVE collect(_, _, _, _, _)
collect(P, hidden, cands, i, seen_guids) ==
    IF i > Len(cands) THEN <<>>
    ELSE IF passes(P, hidden, cands[i][1], cands[i][2])
            /\ not_seen(seen_guids, cands[i][2])
    THEN <<cands[i]>> \o collect(P, hidden, cands, i + 1, seen_guids \cup {cands[i][2]})
    ELSE collect(P, hidden, cands, i + 1, seen_guids)

item_of(P, x) == P.channels[x[1]].items[x[2]]

item_time(P, x) ==
    time_since_epoch(item_of(P, x), get(P.channels[x[1]].rec, "updated"))

\* (time_since_epoch, order, item) of x is smaller than that of y; two items
\* of the same time and order compare as neither smaller.
tuple_less(P, x, y) ==
    \/ item_time(P, x) < item_time(P, y)
    \/ /\ item_time(P, x) = item_time(P, y)
       /\ OrderLess(order(item_of(P, x)), order(item_of(P, y)))

sort_items_unsorted(P, s) == s

\* NewsItem.__eq__: x and y are <<channel, id>>.
newsitem_eq(P, x, y) == x[2] = y[2]

newsitem_lt_by_date(P, x, y) ==
    LET dx == get_date(item_of(P, x), get(P.channels[x[1]].rec, "updated")).date
        dy == get_date(item_of(P, y), get(P.channels[y[1]].rec, "updated")).date
    IN dx < dy

\* NewsItem.__lt__: the date, then the order (a text).
newsitem_lt(P, x, y) ==
    LET dx == get_date(item_of(P, x), get(P.channels[x[1]].rec, "updated")).date
        dy == get_date(item_of(P, y), get(P.channels[y[1]].rec, "updated")).date
    IN IF dx < dy THEN TRUE
       ELSE IF dx = dy THEN OrderLess(order(item_of(P, x)), order(item_of(P, y)))
       ELSE FALSE

\* items.sort(): stable.
RECURSIVE sort_items(_, _)
sort_items(P, s) ==
    IF s = <<>> THEN <<>>
    ELSE LET x == s[Len(s)]
             rest == sort_items(P, SubSeq(s, 1, Len(s) - 1))
         IN SelectSeq(rest, LAMBDA y : ~tuple_less(P, x, y)) \o <<x>>
            \o SelectSeq(rest, LAMBDA y : tuple_less(P, x, y))

\* The max_days loop: how many leading items are newer than max_time.
RECURSIVE max_count(_, _, _, _)
max_count(P, s, i, max_time) ==
    IF i > Len(s) \/ ~(item_time(P, s[i]) > max_time) THEN i - 1
    ELSE max_count(P, s, i + 1, max_time)

\* The planet after time_since_epoch has been read on the items of s.
resolve_items(P, s) ==
    [P EXCEPT !.channels =
        [c \in 1..Len(P.channels) |->
            [P.channels[c] EXCEPT !.items =
                Resolved(P.channels[c].items,
                         {x[2] : x \in {y \in Range(s) : y[1] = c}},
                         get(P.channels[c].rec, "updated"))]]]

\* Where the slice s[:m] of a list of n elements ends: a negative m counts
\* from the end of the list.
slice_end(n, m) ==
    IF m < 0 THEN (IF n + m > 0 THEN n + m ELSE 0)
    ELSE IF m < n THEN m ELSE n

\* Planet.items(hidden, sorted, max_items, max_days, channels): [list,
\* planet].  max_items and max_days are 0 for False, channels is <<>> for
\* None or an empty list.
planet_items(P, hidden, sorted, max_items, max_days, channels) ==
    LET chans == IF channels = <<>> THEN default_channels(P, hidden) ELSE channels
        got == collect(P, hidden, candidates(P, chans, 1), 1, {})
        Q == resolve_items(P, got)
        s1 == IF sorted THEN Reverse(sort_items(Q, got)) ELSE got
        s2 == IF Len(s1) # 0 /\ max_items # 0
              THEN SubSeq(s1, 1, slice_end(Len(s1), max_items))
              ELSE s1
        s3 == IF Len(s2) # 0 /\ max_days # 0
              THEN SubSeq(s2, 1,
                          max_count(Q, s2, 1, item_time(Q, s2[1]) - max_days * DAY))
              ELSE s2
    IN [list |-> s3, planet |-> Q]

\* ------------------------------------------------------------------ inputs

NoDates == [k \in {} |-> 0]

\* The dates an entry may claim: none, or one later than every fetch.
EntryDates ==
    {NoDates, ("updated" :> MaxTime + 1)}

Entries ==
    {[id |-> i, link |-> NoneStr, title |-> NoText, dates |-> d] :
        i \in Ids, d \in EntryDates}
    \cup {[id |-> NoneStr, link |-> "A", title |-> NoText, dates |-> NoDates],
          [id |-> NoneStr, link |-> NoneStr, title |-> NoText, dates |-> NoDates]}

EntryLists == UNION {[1..n -> Entries] : n \in 0..MaxEntries}

FeedMetas ==
    {[etag |-> NoneStr, modified |-> NoneStr, title |-> NoText],
     [etag |-> "e1", modified |-> "m1", title |-> <<"T">>]}

\* What feedparser.parse may return, with its entries among `lists`.
InfosOver(lists) ==
    {[status |-> s, entries |-> e, url |-> ConfiguredUrl, bozo |-> NoneStr,
      etag |-> m.etag, modified |-> m.modified, feed |-> [title |-> m.title]] :
        s \in {"200", "226", NoneStr}, e \in lists, m \in FeedMetas}
    \cup
    {[status |-> "301", entries |-> e, url |-> u, bozo |-> NoneStr,
      etag |-> NoneStr, modified |-> NoneStr, feed |-> [title |-> NoText]] :
        e \in lists, u \in Urls}
    \cup
    {[status |-> s, entries |-> e, url |-> ConfiguredUrl, bozo |-> NoneStr,
      etag |-> "e1", modified |-> "m1", feed |-> [title |-> NoText]] :
        s \in {"304", "404", "408", "410", "500"}, e \in lists}
    \cup
    {[status |-> NoneStr, entries |-> <<>>, url |-> ConfiguredUrl, bozo |-> b,
      etag |-> NoneStr, modified |-> NoneStr, feed |-> [title |-> NoText]] :
        b \in {"Timeout", "other"}}

\* ------------------------------------------------------------------ state

VARIABLES
    cache,      \* the channel's durable store (the shelve file)
    ch,         \* the Channel object of the running process
    files,      \* the urls under whose names the store file is linked
    now,        \* the clock: what time.gmtime() returns
    nfi,        \* planet.new_feed_items
    last,       \* the operation that led to this state
    pending,    \* the update_entries calls since the channel was last written
    planet,     \* the Planet object with its subscribed channels
    returned,   \* what Planet.items was last asked and what it returned
    store,      \* a durable map, key by key
    record,     \* a record bound to that map
    batch       \* a Planet.run() over the sections of the configuration

vars ==
    <<cache, ch, files, now, nfi, last, pending, planet, returned, store, record,
      batch>>

\* The operation that led to a state, and the ids of the feed it merged.
Op(op, feed) == [op |-> op, feed |-> feed]

FeedIds(entries) == {entry_id(entries[k]) : k \in 1..Len(entries)} \ {NoneStr}

\* A planet that has subscribed no channel yet, and no call of its items.
NoPlanet == [channels |-> <<>>, filter |-> NoneStr, exclude |-> NoneStr]

NotAsked == [asked |-> FALSE, list |-> <<>>]

\* No Planet.run() under way: no section met, no store opened.
NoBatch ==
    [pos |-> 1, subscribed |-> <<>>, updated |-> {}, ended |-> FALSE,
     raised |-> FALSE, stores |-> [u \in {} |-> 0]]

Init ==
    /\ cache = [k \in {} |-> 0]
    /\ ch = Channel(cache, ConfiguredUrl)
    /\ files = {ConfiguredUrl}
    /\ now = 0
    /\ nfi \in 0..MaxThreshold
    /\ last = Op("init", {})
    /\ pending = 0
    /\ planet = NoPlanet
    /\ returned = NotAsked
    /\ store = [k \in {} |-> 0]
    /\ record = new_record("A")
    /\ batch = NoBatch

\* int(next_order) stays within the model's bound.
Bounded(c) == get(c.rec, "next_order") <= MaxOrder

\* Time passes.
Tick ==
    /\ now < MaxTime
    /\ now' = now + 1
    /\ last' = Op("tick", {})
    /\ UNCHANGED <<cache, ch, files, nfi, pending, planet, returned, store, record, batch>>

\* channel.update_entries(entries), called on the object.
UpdateEntries(entries) ==
    LET c == update_entries(cache, ch, entries, now, nfi) IN
    /\ pending < MaxPending
    /\ Bounded(c)
    /\ ch' = c
    /\ last' = Op("update_entries", FeedIds(entries))
    /\ pending' = pending + 1
    /\ UNCHANGED <<cache, files, now, nfi, planet, returned, store, record, batch>>

\* channel.cache_write(), called on the object.
CacheWrite ==
    LET w == cache_write(cache, ch) IN
    /\ cache' = w.cache
    /\ ch' = w.ch
    /\ last' = Op("cache_write", {})
    /\ pending' = 0
    /\ UNCHANGED <<files, now, nfi, planet, returned, store, record, batch>>

\* channel.update(), the fetch returning info.
Update(info) ==
    LET u == update(cache, ch, files, info, now, nfi) IN
    /\ Bounded(u.ch)
    /\ cache' = u.cache
    /\ ch' = u.ch
    /\ files' = u.files
    /\ last' = Op("update", {})
    /\ pending' = 0
    /\ UNCHANGED <<now, nfi, planet, returned, store, record, batch>>

\* Planet.run() of a new process, for this channel: the channel is
\* constructed from its store and, unless offline or gone, updated.
Run(info, offline) ==
    LET c0 == Channel(cache, ConfiguredUrl)
        called == ~offline /\ get(c0.rec, "url_status") # "410"
        u == IF called THEN update(cache, c0, files, info, now, nfi)
             ELSE [cache |-> cache, ch |-> c0, files |-> files]
    IN
    /\ Bounded(u.ch)
    /\ cache' = u.cache
    /\ ch' = u.ch
    /\ files' = u.files
    /\ last' = Op(IF called THEN "run_update" ELSE "run_load", {})
    /\ pending' = 0
    /\ UNCHANGED <<now, nfi, planet, returned, store, record, batch>>

\* The fetch results that only set the status of the channel.
StatusInfos == {i \in InfosOver({<<>>}) : i.status = "226" /\ i.etag = NoneStr}

Next ==
    \/ Tick
    \/ \E e \in EntryLists : UpdateEntries(e)
    \/ CacheWrite
    \/ \E i \in StatusInfos : Update(i)

Spec == Init /\ [][Next]_vars

\* ------------------------------------------------- properties of the merge

\* The states in which the model lets update_entries be called on the object.
Callable == pending < MaxPending

Visible(items, i) == ~has_key(items[i], "hidden")

\* C1: calling update_entries(E) a second time, directly after the first and
\* with the same entries, creates no item, changes no item's order, leaves
\* next_order as it is and removes no item from the active set.
C1_Idempotent ==
    Callable =>
    \A E \in EntryLists : \A t2 \in now..MaxTime :
        LET c1 == update_entries(cache, ch, E, now, nfi)
            c2 == update_entries(cache, c1, E, t2, nfi)
        IN /\ DOMAIN c2.items = DOMAIN c1.items
           /\ \A i \in DOMAIN c1.items : order(c2.items[i]) = order(c1.items[i])
           /\ get(c2.rec, "next_order") = get(c1.rec, "next_order")

\* The entries of E that update_entries takes (those it finds an id for).
Taken(E) == Cardinality({k \in 1..Len(E) : entry_id(E[k]) # NoneStr})

C3_FirstSyncHiding ==
    (Callable /\ get(ch.rec, "updated") = None /\ DOMAIN ch.items = {}
        /\ nfi > 0) =>
    \A E \in EntryLists :
        (/\ \A k \in 1..Len(E) : entry_id(E[k]) # NoneStr
         /\ \A j, k \in 1..Len(E) : j # k => entry_id(E[j]) # entry_id(E[k])) =>
        LET c == update_entries(cache, ch, E, now, nfi)
        IN /\ DOMAIN c.items = FeedIds(E)
           /\ \A k \in 1..Len(E) :
                ~Visible(c.items, entry_id(E[k])) <=> k > nfi
           /\ get(c.rec, "next_order") = Len(E)

\* A first synchronisation has hidden the entries past the threshold.
C3_Witness ==
    /\ last.op = "update_entries"
    /\ get(ch.rec, "last_updated") = None
    /\ nfi > 0
    /\ Cardinality({i \in DOMAIN ch.items : Visible(ch.items, i)}) = nfi
    /\ Cardinality({i \in DOMAIN ch.items : ~Visible(ch.items, i)}) > 0
    /\ get(ch.rec, "next_order") = Cardinality(DOMAIN ch.items)

\* C4: every active item has a date and it is never later than the channel's
\* updated time; an entry update_entries takes that claims a date later than
\* the fetch is stored with date = channel.updated.
C4_DateClamped ==
    /\ \A i \in DOMAIN ch.items :
        /\ key_type(ch.items[i], "date") = DATE_T
        /\ get(ch.items[i], "date") <= get(ch.rec, "updated")
    /\ Callable =>
        \A E \in EntryLists :
            LET c == update_entries(cache, ch, E, now, nfi) IN
            \A k \in 1..Len(E) :
                (entry_id(E[k]) # NoneStr
                    /\ FirstClaim(SetDates(NoDates, E[k].dates, DOMAIN E[k].dates), 1) > now) =>
                /\ get(c.rec, "updated") = now
                /\ get(c.items[entry_id(E[k])], "date") = get(c.rec, "updated")

\* An active item that claims a later date is stored with the channel's
\* updated time.
C4_Witness ==
    /\ last.op = "update_entries"
    /\ \E i \in DOMAIN ch.items \cap last.feed :
        /\ FirstClaim(ch.items[i], 1) > get(ch.rec, "updated")
        /\ get(ch.items[i], "date") = get(ch.rec, "updated")

\* C8: while url_status is "226" update_entries removes no item, whichever
\* items the feed leaves out.
C8_RetainAll ==
    (Callable /\ get(ch.rec, "url_status") = "226") =>
    \A E \in EntryLists :
        LET c == update_entries(cache, ch, E, now, nfi)
        IN /\ DOMAIN ch.items \subseteq DOMAIN c.items
           /\ c.expired = ch.expired

\* Under status 226 a visible item the feed left out, and that sorts newer
\* than an item of the feed, is still active after update_entries.
C8_Witness ==
    /\ last.op = "update_entries"
    /\ get(ch.rec, "url_status") = "226"
    /\ \E i \in DOMAIN ch.items \ last.feed : \E j \in last.feed :
        /\ Visible(ch.items, i)
        /\ Visible(ch.items, j)
        /\ KeyLess(ch.items, j, i, get(ch.rec, "updated"))

\* ------------------------------------------------ runs of the whole planet
\* Each step is a run of planet.py for the configured feed: a new process
\* that constructs the channel from its store and updates it.

\* The feeds of the runs: no entry, or one entry that claims no date.
FeedLists ==
    {<<>>} \cup
    {<<e>> : e \in {x \in Entries : x.id \in {"A", "B"} /\ x.dates = NoDates}}

RunInfos == InfosOver(FeedLists)

\* An offline run fetches nothing.
NoFetch == {i \in RunInfos : i.status = "304" /\ i.entries = <<>>}

NextUpdate ==
    \/ Tick
    \/ \E i \in RunInfos : Run(i, FALSE)
    \/ \E i \in NoFetch : Run(i, TRUE)

SpecUpdate == Init /\ [][NextUpdate]_vars

\* The statuses update() returns on without merging or writing.
Skipped(status) ==
    status \in {"304", "408"} \/ (StatusInt(status) >= 400 /\ status # "410")

\* C9: when update() gets status 304, 408 or one >= 400 other than 410, the
\* channel's next_order, active items, ETag and Last-Modified validators,
\* updated and last_updated, and the durable store, are as before the call.
C9_SkippedCycle ==
    \A info \in RunInfos :
        Skipped(url_status_of(info)) =>
        LET u == update(cache, ch, files, info, now, nfi)
        IN /\ u.cache = cache
           /\ u.files = files
           /\ u.ch.items = ch.items
           /\ u.ch.expired = ch.expired
           /\ \A k \in {"next_order", "url_etag", "url_modified", "updated",
                        "last_updated"} : u.ch.rec[k] = ch.rec[k]

\* A run has fetched a skipped status for a channel that has items and
\* validators: the store still holds the status of the run before.
C9_Witness ==
    /\ last.op = "run_update"
    /\ Skipped(get(ch.rec, "url_status"))
    /\ DOMAIN ch.items # {}
    /\ get(ch.rec, "url_etag") = "e1"
    /\ get(cache[Root], "url_status") = "200"
    /\ ch.rec = set_as_string(cache[Root], "url_status", get(ch.rec, "url_status"))

Stored410 == Root \in DOMAIN cache /\ get(cache[Root], "url_status") = "410"

\* What update() stores for status 410: the channel as it is, with that
\* status, and nothing merged.
GoneWritten ==
    \A info \in RunInfos :
        url_status_of(info) = "410" =>
        LET u == update(cache, ch, files, info, now, nfi)
            rec == set_as_string(ch.rec, "url_status", "410")
        IN /\ u.ch.rec = rec
           /\ u.ch.items = ch.items
           /\ DOMAIN ch.items \cup {Root} \subseteq DOMAIN u.cache
           /\ u.cache[Root] = rec
           /\ \A i \in DOMAIN ch.items : u.cache[i] = ch.items[i]
           /\ DOMAIN u.cache \ DOMAIN cache \subseteq DOMAIN ch.items \cup {Root}

\* What a step does once the store holds status 410: no run calls update(),
\* the store stays as it is, and a run loads every stored item.
GoneStays ==
    Stored410 =>
        /\ cache' = cache
        /\ last'.op # "run_update"
        /\ last'.op = "run_load" =>
            /\ get(ch'.rec, "url_status") = "410"
            /\ DOMAIN ch'.items = DOMAIN cache \ {Root}
            /\ \A i \in DOMAIN ch'.items : ch'.items[i] = cache[i]

\* C10: status 410 makes update() write the channel as it is, status
\* included, without merging; from then on every run loads that status,
\* never calls update() for the channel, and still loads its stored items.
C10_GoneIsTerminal == []GoneWritten /\ [][GoneStays]_vars

\* A run, not offline, of a channel whose store holds status 410 and items.
C10_Witness ==
    /\ Stored410
    /\ last.op = "run_load"
    /\ DOMAIN ch.items # {}
    /\ DOMAIN ch.items = DOMAIN cache \ {Root}

\* ------------------------------------------------- the batch of Planet.run
\* One Planet.run() goes through the sections of the configuration; every
\* channel has a store of its own.  Each step is one turn of the loop: the
\* channel is constructed on its store, subscribed and, unless gone, updated.
\* What the environment does to the turn is its outcome: "ok", "open" (the
\* store cannot be opened or read: Channel() raises), "corrupt" (SystemError
\* while the items are read, after those of `kept`), "fetch" (update() raises
\* before it writes), "persist" (update() raises after the items are written
\* and before the channel's own record is).

Sections == <<"u1", "u2">>

Outcomes == {"ok", "open", "corrupt", "fetch", "persist"}

BatchInfos ==
    {i \in RunInfos : i.status \in {"200", "404", "410"} /\ i.feed.title = NoText}

InitBatch ==
    /\ cache = [k \in {} |-> 0]
    /\ ch = Channel(cache, ConfiguredUrl)
    /\ files = {ConfiguredUrl}
    /\ now = 0
    /\ nfi = MaxThreshold
    /\ last = Op("init", {})
    /\ pending = 0
    /\ planet = NoPlanet
    /\ returned = NotAsked
    /\ store = [k \in {} |-> 0]
    /\ record = new_record("A")
    /\ batch = [NoBatch EXCEPT !.stores = [u \in Range(Sections) |-> [k \in {} |-> 0]]]

\* Channel.__init__ when cache_read_entries raises SystemError after the items
\* of kept: the items read stay, etag and modified are reset.
ChannelCorrupt(st, url, kept) ==
    LET c == Channel(st, url)
    IN [c EXCEPT !.rec = set_as_null(set_as_null(c.rec, "url_etag"), "url_modified"),
                 !.items = Restrict(c.items, kept \cap DOMAIN c.items)]

\* A new process calls Planet.run().
StartRun ==
    /\ batch.ended
    /\ batch' = [NoBatch EXCEPT !.stores = batch.stores]
    /\ last' = Op("run", {})
    /\ UNCHANGED <<cache, ch, files, now, nfi, pending, planet, returned, store, record>>

\* One turn of the loop of Planet.run().
RunSection(outcome, info, kept) ==
    LET url == Sections[batch.pos]
        st == batch.stores[url]
        c0 == IF outcome = "corrupt" THEN ChannelCorrupt(st, url, kept)
              ELSE Channel(st, url)
        status == url_status_of(info)
        moved == status = "301" /\ Len(info.entries) > 0
        called == get(c0.rec, "url_status") # "410"
        u == update(st, c0, {url}, info, now, nfi)
        written == IF ~called \/ outcome = "fetch" THEN st
                   ELSE IF outcome = "persist"
                   THEN WriteItems(st, u.ch.items, DOMAIN u.ch.items)
                   ELSE u.cache
    IN
    /\ ~batch.ended
    /\ outcome = "corrupt" => DOMAIN st # {}
    /\ outcome \in {"fetch", "persist"} => called
    /\ outcome = "persist" => update_branch(status, moved) # "return"
    /\ called /\ outcome # "open" => Bounded(u.ch)
    /\ batch' =
        IF outcome = "open"
        THEN [batch EXCEPT !.ended = TRUE, !.raised = TRUE]
        ELSE [batch EXCEPT !.pos = @ + 1,
                           !.subscribed = Append(@, url),
                           !.updated = IF called THEN @ \cup {url} ELSE @,
                           !.ended = batch.pos = Len(Sections),
                           !.stores = [@ EXCEPT ![url] = written]]
    /\ last' = [op |-> "run_section", feed |-> {}, outcome |-> outcome, url |-> url]
    /\ UNCHANGED <<cache, ch, files, now, nfi, pending, planet, returned, store, record>>

NextBatch ==
    \/ StartRun
    \/ \E outcome \in Outcomes : \E info \in BatchInfos :
        \E kept \in IF outcome = "corrupt" THEN SUBSET {"A", "B"} ELSE {{}} :
            RunSection(outcome, info, kept)

SpecBatch == InitBatch /\ [][NextBatch]_vars

\* A turn of the loop leaves the stores of the other channels as they are.
OthersUntouched ==
    [][\A u \in DOMAIN batch.stores :
        (batch.pos > Len(Sections) \/ u # Sections[batch.pos])
            => batch'.stores[u] = batch.stores[u]]_vars

\* A failure inside update() leaves the loop running: the section after it
\* has been met.
FailureTolerated ==
    (last.op = "run_section" /\ last.outcome \in {"corrupt", "fetch", "persist"})
        => (~batch.raised /\ batch.subscribed[Len(batch.subscribed)] = last.url)

\* C11: whatever fails for one channel while Planet.run() opens and loads its
\* store, fetches, merges or writes, the run ends with every configured
\* section created and subscribed, and no exception leaves run().
C11_BatchIsolation ==
    batch.ended =>
        /\ ~batch.raised
        /\ batch.subscribed = Sections

\* ------------------------------------------------------ the query surface
\* The planet has loaded two channels from their stores; each step is a call
\* of Planet.items.

\* An item as a channel holds it: date, order, title, and hidden or not.
PlanetItem(date, n, hidden, title) ==
    LET item == set_as_string(set_as_string(set_as_date(
                    [k \in {} |-> 0], "date", date), "order", n), "title", title)
    IN IF hidden THEN set_as_string(item, "hidden", "yes") ELSE item

\* What a channel may hold: nothing, an item A (old or new, hidden or not),
\* or an item A of another title after an item B.
Holdings ==
    {[items |-> [k \in {} |-> 0], keys |-> <<>>],
     [items |-> ("A" :> PlanetItem(0, 1, FALSE, <<"X">>)), keys |-> <<"A">>],
     [items |-> ("A" :> PlanetItem(MaxTime, 1, FALSE, <<"X">>)), keys |-> <<"A">>],
     [items |-> ("A" :> PlanetItem(0, 1, TRUE, <<"X">>)), keys |-> <<"A">>],
     [items |-> ("A" :> PlanetItem(0, 1, FALSE, <<"y">>))
                    @@ ("B" :> PlanetItem(0, 2, FALSE, <<"y">>)),
      keys |-> <<"B", "A">>]}

\* The planet's and the channels' patterns.
Patterns ==
    {[filter |-> f, exclude |-> NoneStr, cfilter |-> <<NoneStr, NoneStr>>,
      cexclude |-> <<NoneStr, NoneStr>>] : f \in {NoneStr, "x"}}
    \cup
    {[filter |-> NoneStr, exclude |-> NoneStr, cfilter |-> <<NoneStr, NoneStr>>,
      cexclude |-> <<"x", NoneStr>>]}

\* A channel loaded from a store that holds h, with the options its section
\* of the configuration gives it.
LoadedChannel(url, name, h, pat, c) ==
    LET r0 == Channel([k \in {} |-> 0], url).rec
        r1 == set_as_string(
                  set_as_date(set_as_string(r0, "name", name), "updated", MaxTime),
                  "next_order", Len(h.keys))
        r2 == set_string_or_null(r1, "filter", pat.cfilter[c])
        r3 == set_string_or_null(r2, "exclude", pat.cexclude[c])
    IN [rec |-> r3, items |-> h.items, keys |-> h.keys]

Planets ==
    {[channels |-> <<LoadedChannel("u1", n[1], h1, pat, 1),
                     LoadedChannel("u2", n[2], h2, pat, 2)>>,
      filter |-> pat.filter, exclude |-> pat.exclude] :
        n \in {<<<<"a">>, <<"b">>>>, <<<<"b">>, <<"a">>>>},
        h1 \in Holdings, h2 \in Holdings, pat \in Patterns}

\* The channel lists a caller may pass: none, or some of the channels.
Subsets == {<<>>, <<2>>, <<2, 1>>}

InitPlanet ==
    /\ cache = [k \in {} |-> 0]
    /\ ch = Channel(cache, ConfiguredUrl)
    /\ files = {ConfiguredUrl}
    /\ now = MaxTime
    /\ nfi = MaxThreshold
    /\ last = Op("init", {})
    /\ pending = 0
    /\ planet \in Planets
    /\ returned = NotAsked
    /\ store = [k \in {} |-> 0]
    /\ record = new_record("A")
    /\ batch = NoBatch

\* planet.items(hidden, sorted, max_items, max_days, channels)
Items(hidden, sorted, max_items, max_days, channels) ==
    LET r == planet_items(planet, hidden, sorted, max_items, max_days, channels) IN
    /\ planet' = r.planet
    /\ returned' = [asked |-> TRUE, list |-> r.list, hidden |-> hidden,
                    sorted |-> sorted, max_items |-> max_items,
                    max_days |-> max_days, channels |-> channels]
    /\ last' = Op("items", {})
    /\ UNCHANGED <<cache, ch, files, now, nfi, pending, store, record, batch>>

NextPlanet ==
    \E hidden, sorted \in BOOLEAN : \E max_items, max_days \in 0..1 :
        \E channels \in Subsets :
            Items(hidden, sorted, max_items, max_days, channels)

SpecPlanet == InitPlanet /\ [][NextPlanet]_vars

\* The channels that hold id and whose copy of it passes the hidden test and
\* the filters.
Holders(hidden, id) ==
    {c \in 1..Len(planet.channels) :
        has_item(planet.channels[c], id) /\ passes(planet, hidden, c, id)}

\* The first element of the list s that is in the set S.
FirstIn(s, S) == s[CHOOSE k \in 1..Len(s) : s[k] \in S /\ \A j \in 1..(k - 1) : s[j] \notin S]

\* C5: whatever the channels and the arguments, the list Planet.items returns
\* has no two items of the same id, even when several channels hold the id.
C5_GlobalDedup ==
    returned.asked =>
        \A j, k \in 1..Len(returned.list) :
            j # k => returned.list[j][2] # returned.list[k][2]

\* Planet.items has returned an id that both channels hold and show.
C5_Witness ==
    /\ returned.asked
    /\ returned.channels = <<>>
    /\ Holders(returned.hidden, "A") = {1, 2}
    /\ \E k \in 1..Len(returned.list) : returned.list[k][2] = "A"

\* The channels in the order of their display names.
ByName == sort_by_name(planet, [c \in 1..Len(planet.channels) |-> c])

\* C6 as stated: of the copies of an id several channels hold, Planet.items
\* called without a channel subset returns the copy of the channel that comes
\* first in display-name order, and called with a subset the copy of the
\* channel that comes first in the subset (among the channels whose copy
\* passes the hidden test and the filters).
C6_WinnerByName ==
    returned.asked =>
        \A k \in 1..Len(returned.list) :
            LET c == returned.list[k][1]
                id == returned.list[k][2]
            IN c = FirstIn(IF returned.channels = <<>> THEN ByName
                           ELSE returned.channels,
                           Holders(returned.hidden, id))

\* C6 amended: without a channel subset the copy returned is that of the
\* channel that was subscribed first, whatever the display names, among the
\* channels whose copy passes the hidden test and the filters; with a subset
\* it is that of the first such channel of the subset.
C6_WinnerBySubscription ==
    returned.asked =>
        \A k \in 1..Len(returned.list) :
            LET c == returned.list[k][1]
                id == returned.list[k][2]
            IN c = FirstIn(IF returned.channels = <<>>
                           THEN [i \in 1..Len(planet.channels) |-> i]
                           ELSE returned.channels,
                           Holders(returned.hidden, id))

\* Both channels hold and show A, the channel subscribed second has the
\* smaller display name, and Planet.items, given no subset, has returned the
\* copy of the channel subscribed first.
C6_Witness ==
    /\ returned.asked
    /\ returned.channels = <<>>
    /\ Holders(returned.hidden, "A") = {1, 2}
    /\ ByName = <<2, 1>>
    /\ \E k \in 1..Len(returned.list) : returned.list[k] = <<1, "A">>

\* ------------------------------------------------- the queries of a planet
\* A planet that has loaded two channels whose items lie up to more than a
\* day apart, carry titles and contents, and may be hidden, as may the
\* channels; each step is a call of Planet.items.

\* The time of the newest item and of the channels' last update.
Newest == 90000

\* An item as a channel holds it.
QueryItem(date, n, hidden, title, content) ==
    LET a == set_as_string(set_as_date([k \in {} |-> 0], "date", date), "order", n)
        b == IF title # NoText THEN set_as_string(a, "title", title) ELSE a
        c == IF content # NoText THEN set_as_string(b, "content", content) ELSE b
    IN IF hidden THEN set_as_string(c, "hidden", "yes") ELSE c

\* What the first channel may hold, and the second.
FirstHoldings ==
    {[items |-> ("A" :> QueryItem(Newest, 1, FALSE, <<"X">>, NoText))
                    @@ ("B" :> QueryItem(5000, 2, FALSE, <<"y">>, <<"x">>)),
      keys |-> <<"B", "A">>],
     [items |-> ("A" :> QueryItem(10000, 1, FALSE, <<"x">>, <<"Y">>))
                    @@ ("B" :> QueryItem(10000, 2, TRUE, <<"X">>, NoText)),
      keys |-> <<"A", "B">>]}

SecondHoldings ==
    {[items |-> [k \in {} |-> 0], keys |-> <<>>],
     [items |-> ("C" :> QueryItem(10000, 1, FALSE, NoText, <<"x">>)), keys |-> <<"C">>],
     [items |-> ("A" :> QueryItem(0, 1, FALSE, <<"X">>, NoText))
                    @@ ("C" :> QueryItem(Newest, 2, FALSE, <<"y">>, NoText)),
      keys |-> <<"A", "C">>]}

\* The planet's filter and exclude, and those of the first channel.
QueryPatterns ==
    {[filter |-> f, exclude |-> e, cfilter |-> cf, cexclude |-> ce] :
        f \in {NoneStr, "x"}, e \in {NoneStr, "y"},
        cf \in {NoneStr, "y"}, ce \in {NoneStr, "x"}}

\* A channel loaded from a store that holds h; its section of the
\* configuration gives it its name, its patterns and, if marked, `hidden`.
QueryChannel(url, name, h, marked, cfilter, cexclude) ==
    LET r0 == Channel([k \in {} |-> 0], url).rec
        r1 == set_as_string(
                  set_as_date(set_as_string(r0, "name", name), "updated", Newest),
                  "next_order", Len(h.keys))
        r2 == set_string_or_null(r1, "filter", cfilter)
        r3 == set_string_or_null(r2, "exclude", cexclude)
        r4 == IF marked THEN set_as_string(r3, "hidden", "yes") ELSE r3
    IN [rec |-> r4, items |-> h.items, keys |-> h.keys]

QueryPlanets ==
    {[channels |-> <<QueryChannel("u1", <<"a">>, h1, FALSE, pat.cfilter, pat.cexclude),
                     QueryChannel("u2", <<"b">>, h2, marked, NoneStr, NoneStr)>>,
      filter |-> pat.filter, exclude |-> pat.exclude] :
        h1 \in FirstHoldings, h2 \in SecondHoldings, marked \in BOOLEAN,
        pat \in QueryPatterns}

InitQuery ==
    /\ cache = [k \in {} |-> 0]
    /\ ch = Channel(cache, ConfiguredUrl)
    /\ files = {ConfiguredUrl}
    /\ now = MaxTime
    /\ nfi = MaxThreshold
    /\ last = Op("init", {})
    /\ pending = 0
    /\ planet \in QueryPlanets
    /\ returned = NotAsked
    /\ store = [k \in {} |-> 0]
    /\ record = new_record("A")
    /\ batch = NoBatch

NextQuery ==
    \E hidden, sorted \in BOOLEAN : \E max_items \in -1..1 : \E max_days \in 0..1 :
        \E channels \in Subsets :
            Items(hidden, sorted, max_items, max_days, channels)

SpecQuery == InitQuery /\ [][NextQuery]_vars

\* The channels the last call went through.
Iterated ==
    IF returned.channels = <<>> THEN default_channels(planet, returned.hidden)
    ELSE returned.channels

\* What the last call would have returned with these max_items and max_days.
Would(max_items, max_days) ==
    planet_items(planet, returned.hidden, returned.sorted, max_items, max_days,
                 returned.channels).list

\* C15: without max_items and max_days, an item of a channel the call goes
\* through is returned (under its id) if and only if it is visible or hidden
\* items were asked for, it matches the planet's filter in title or content
\* when there is one, matches the planet's exclude in neither, matches its
\* channel's filter when there is one and matches its channel's exclude in
\* neither; every item returned passes all of these.
C15_FilterSemantics ==
    (returned.asked /\ returned.max_items = 0 /\ returned.max_days = 0) =>
        LET Title(item) == IF has_key(item, "title") THEN item["title"].value ELSE <<>>
            Matches(p, item) == search(p, Title(item)) \/ search(p, get_content(item))
            Set(p) == p \notin {NoneStr, ""}
            Qualifies(c, id) ==
                LET item == planet.channels[c].items[id]
                    rec == planet.channels[c].rec
                IN /\ returned.hidden \/ ~has_key(item, "hidden")
                   /\ Set(planet.filter) => Matches(planet.filter, item)
                   /\ Set(planet.exclude) => ~Matches(planet.exclude, item)
                   /\ Set(get(rec, "filter")) => Matches(get(rec, "filter"), item)
                   /\ Set(get(rec, "exclude")) => ~Matches(get(rec, "exclude"), item)
        IN /\ \A k \in 1..Len(returned.list) :
                Qualifies(returned.list[k][1], returned.list[k][2])
           /\ \A c \in Range(Iterated) : \A id \in DOMAIN planet.channels[c].items :
                Qualifies(c, id) => \E k \in 1..Len(returned.list) : returned.list[k][2] = id

\* The planet's filter lets A of both channels through, the first channel's
\* exclude rejects its copy, and the copy of the second channel is returned.
C15_Witness ==
    /\ returned.asked
    /\ returned.max_items = 0 /\ returned.max_days = 0
    /\ returned.channels = <<>>
    /\ planet.filter = "x"
    /\ get(planet.channels[1].rec, "exclude") = "x"
    /\ has_item(planet.channels[1], "A")
    /\ \E k \in 1..Len(returned.list) : returned.list[k] = <<2, "A">>

\* C16: with sorted=True the list Planet.items returns is in non-increasing
\* order of time_since_epoch, and so is the list Channel.items(sorted=True)
\* gives for each channel.
C16_NewestFirst ==
    /\ (returned.asked /\ returned.sorted) =>
        \A k \in 1..(Len(returned.list) - 1) :
            item_time(planet, returned.list[k]) >= item_time(planet, returned.list[k + 1])
    /\ \A c \in 1..Len(planet.channels) : \A hidden \in BOOLEAN :
        LET updated == get(planet.channels[c].rec, "updated")
            r == channel_items(planet.channels[c].items, hidden, updated)
        IN \A k \in 1..(Len(r.list) - 1) :
            time_since_epoch(r.items[r.list[k]], updated)
                >= time_since_epoch(r.items[r.list[k + 1]], updated)

\* Three items of three different times, met oldest first, have been returned
\* newest first.
C16_Witness ==
    /\ returned.asked
    /\ returned.sorted
    /\ planet.channels[1].keys = <<"B", "A">>
    /\ returned.list = << <<1, "A">>, <<2, "C">>, <<1, "B">> >>

\* The part of C17 about a positive max_items.
MaxItemsPositive ==
    (returned.asked /\ returned.sorted /\ returned.max_items > 0) =>
        LET full == Would(0, returned.max_days)
            m == returned.max_items
        IN /\ Len(returned.list) <= m
           /\ returned.list = SubSeq(full, 1, IF m < Len(full) THEN m ELSE Len(full))

\* C17: with sorted=True and max_items = m > 0 the list returned is the first
\* min(m, N) items of the list returned without max_items, never more than
\* m; with a max_items that is not positive it is that whole list.
C17_MaxItems ==
    (returned.asked /\ returned.sorted) =>
        LET full == Would(0, returned.max_days)
            m == returned.max_items
        IN IF m > 0
           THEN /\ Len(returned.list) <= m
                /\ returned.list = SubSeq(full, 1, IF m < Len(full) THEN m ELSE Len(full))
           ELSE returned.list = full

\* C18: with sorted=True and max_days = d > 0, of the items within the
\* max_items cut the call returns every one less than d x 86400 seconds older
\* than the newest, and none more than d x 86400 seconds older.
C18_MaxDaysWindow ==
    (returned.asked /\ returned.sorted /\ returned.max_days > 0) =>
        LET base == Would(returned.max_items, 0)
            age(x) == item_time(planet, base[1]) - item_time(planet, x)
        IN \A k \in 1..Len(base) :
            /\ age(base[k]) < returned.max_days * 86400 => base[k] \in Range(returned.list)
            /\ age(base[k]) > returned.max_days * 86400 => base[k] \notin Range(returned.list)

\* The window as the code computes it: the items less than max_days x DAY
\* seconds older than the newest.
MaxDaysNominal ==
    (returned.asked /\ returned.sorted /\ returned.max_days > 0) =>
        LET base == Would(returned.max_items, 0)
            age(x) == item_time(planet, base[1]) - item_time(planet, x)
        IN \A k \in 1..Len(base) :
            base[k] \in Range(returned.list) <=> age(base[k]) < returned.max_days * DAY

\* C19: with hidden=False no item returned is marked hidden and none belongs
\* to a channel marked hidden, whatever channels the call went through.
C19_Visibility ==
    (returned.asked /\ ~returned.hidden) =>
        \A k \in 1..Len(returned.list) :
            /\ ~has_key(item_of(planet, returned.list[k]), "hidden")
            /\ ~has_key(planet.channels[returned.list[k][1]].rec, "hidden")

\* The part of C19 about the items: no item returned is itself marked hidden.
NoHiddenItem ==
    (returned.asked /\ ~returned.hidden) =>
        \A k \in 1..Len(returned.list) :
            ~has_key(item_of(planet, returned.list[k]), "hidden")

\* Every item of every channel of the planet, as <<channel, id>>.
AllItems ==
    {<<c, id>> : c \in 1..Len(planet.channels), id \in Ids}
        \cap {x \in (1..Len(planet.channels)) \X Ids : has_item(planet.channels[x[1]], x[2])}

\* Exactly one of a < b, b < a, a == b.
ExactlyOne(x, y) ==
    Cardinality({r \in {"lt", "gt", "eq"} :
        \/ r = "lt" /\ newsitem_lt(planet, x, y)
        \/ r = "gt" /\ newsitem_lt(planet, y, x)
        \/ r = "eq" /\ newsitem_eq(planet, x, y)}) = 1

FieldKeys == {"title", "updated"}

StringValues == {<<"v">>, <<"1", " ", "2">>}

DateValues ==
    {<<1970, 1, 1, 0, 0, 0, 3, 1, 0>>,
     <<2021, 12, 31, 23, 59, 59, 4, 365, -1>>}

\* What another record of the same map has stored.
OtherStored ==
    flush([k \in {} |-> 0], record_set(new_record("B"), "title", STRING_T, <<"v">>)).store

InitStore ==
    /\ cache = [k \in {} |-> 0]
    /\ ch = Channel(cache, ConfiguredUrl)
    /\ files = {ConfiguredUrl}
    /\ now = 0
    /\ nfi = MaxThreshold
    /\ last = Op("init", {})
    /\ pending = 0
    /\ planet = NoPlanet
    /\ returned = NotAsked
    /\ store \in {[k \in {} |-> 0], OtherStored}
    /\ record = new_record("A")
    /\ batch = NoBatch

channelVars == <<cache, ch, files, now, nfi, pending, planet, returned, batch>>

SetAsString(key, value) ==
    /\ record' = record_set(record, key, STRING_T, value)
    /\ last' = Op("set_as_string", {key})
    /\ UNCHANGED <<store, channelVars>>

SetAsDate(key, value) ==
    /\ record' = record_set(record, key, DATE_T, value)
    /\ last' = Op("set_as_date", {key})
    /\ UNCHANGED <<store, channelVars>>

DelKey(key) ==
    /\ record' = record_del_key(record, key)
    /\ last' = Op("del_key", {key})
    /\ UNCHANGED <<store, channelVars>>

Flush ==
    /\ store' = flush(store, record).store
    /\ record' = flush(store, record).record
    /\ last' = Op("cache_write",
                   {k \in record.deleted : value_key(record.id, k) \in DOMAIN store})
    /\ UNCHANGED channelVars

\* A new record is constructed on the same map and id.
Load ==
    /\ record' = load(store, record.id)
    /\ last' = Op("cache_read", {})
    /\ UNCHANGED <<store, channelVars>>

Clear ==
    /\ store' = clear(store, record)
    /\ last' = Op("cache_clear", {})
    /\ UNCHANGED <<record, channelVars>>

NextStore ==
    \/ \E k \in FieldKeys : \E v \in StringValues : SetAsString(k, v)
    \/ \E k \in FieldKeys : \E v \in DateValues : SetAsDate(k, v)
    \/ \E k \in FieldKeys : DelKey(k)
    \/ Flush
    \/ Load
    \/ Clear

SpecStore == InitStore /\ [][NextStore]_vars

\* C7: for a field key k and a STRING or DATE value v, setting k to v on a
\* record, writing the record, and constructing a new record on the same
\* store and id gives get(k) = v with the type it was written with; a DATE
\* comes back as the same nine-component tuple.
C7_RoundTrip ==
    \A k \in FieldKeys : \A type \in {STRING_T, DATE_T} :
        \A v \in IF type = STRING_T THEN StringValues ELSE DateValues :
            LET written == flush(store, record_set(record, k, type, v)).store
                again == load(written, record.id)
            IN /\ record_key_type(again, k) = type
               /\ record_get(again, k) = v
               /\ type = DATE_T => Len(record_get(again, k)) = 9

\* A new record has read back a DATE and a STRING that were written: the map
\* holds the date as text, the record holds it as the tuple.
C7_Witness ==
    /\ last.op = "cache_read"
    /\ record_key_type(record, "updated") = DATE_T
    /\ record_get(record, "updated") \in DateValues
    /\ store[value_key("A", "updated")] = encode_date(record_get(record, "updated"))
    /\ record_key_type(record, "title") = STRING_T
    /\ record_get(record, "title") = <<"1", " ", "2">>

\* The durable keys of the record of id.
KeysOf(map, id) == {dk \in DOMAIN map : dk[1] = id}

\* C12: cache_clear on a record that has been written leaves no durable key
\* of that record in the store, neither a value nor a type of any field it
\* held, and leaves every durable key of the other records with its text.
C12_ClearRemovesOwnKeys ==
    LET w == flush(store, record)
        c == clear(w.store, w.record)
    IN /\ KeysOf(c, record.id) = {}
       /\ \A k \in DOMAIN record.fields :
            /\ value_key(record.id, k) \notin DOMAIN c
            /\ type_key(record.id, k) \notin DOMAIN c
       /\ DOMAIN c = DOMAIN w.store \ KeysOf(w.store, record.id)
       /\ \A dk \in DOMAIN c : c[dk] = w.store[dk]
       /\ last.op = "cache_clear" => KeysOf(store, record.id) = {}

\* A record that holds two written fields has been cleared, and what the
\* other record had stored is all the map holds.
C12_Witness ==
    /\ last.op = "cache_clear"
    /\ DOMAIN record.fields = FieldKeys
    /\ record.dirty = {}
    /\ store = OtherStored

\* The text "string" and the text "date".
StringText == <<"s", "t", "r", "i", "n", "g">>

DateText == <<"d", "a", "t", "e">>

\* The map holds field k of the record of id as the layout says.
Layout(map, id, k, field) ==
    /\ value_key(id, k) \in DOMAIN map
    /\ type_key(id, k) \in DOMAIN map
    /\ field.type = STRING_T =>
        /\ map[value_key(id, k)] = field.value
        /\ map[type_key(id, k)] = StringText
    /\ field.type = DATE_T =>
        LET parts == split(map[value_key(id, k)], " ")
        IN /\ map[type_key(id, k)] = DateText
           /\ Len(parts) = 9
           /\ \A j \in 1..9 : parts[j] = str(field.value[j])

C14_KeyDeletion ==
    /\ \A k \in DOMAIN record.fields :
        LET w1 == flush(store, record)
            w2 == flush(w1.store, record_del_key(w1.record, k)).store
        IN /\ value_key(record.id, k) \notin DOMAIN w2
           /\ type_key(record.id, k) \notin DOMAIN w2
           /\ record_key_type(load(w2, record.id), k) = NULL_T
           /\ \A f \in DOMAIN record.fields \ {k} :
                value_key(record.id, f) \in DOMAIN w1.store =>
                    /\ value_key(record.id, f) \in DOMAIN w2
                    /\ w2[value_key(record.id, f)] = w1.store[value_key(record.id, f)]
                    /\ w2[type_key(record.id, f)] = w1.store[type_key(record.id, f)]
    /\ last.op = "cache_write" =>
        \A k \in FieldKeys \ DOMAIN record.fields :
            /\ value_key(record.id, k) \notin DOMAIN store
            /\ type_key(record.id, k) \notin DOMAIN store

\* A write has removed the stored title of a record and left its date.
C14_Witness ==
    /\ last.op = "cache_write"
    /\ last.feed = {"title"}
    /\ DOMAIN record.fields = {"updated"}
    /\ value_key("A", "title") \notin DOMAIN store
    /\ value_key("A", "updated") \in DOMAIN store
    /\ type_key("A", "updated") \in DOMAIN store

\* ------------------------------------------------ merges that may not finish
\* A process constructs the channel from its store and updates it, as
\* Planet.run does; the feed may hold entries that have a title or a summary
\* and neither id nor link.

MergeEntrySet ==
    {[id |-> i, link |-> NoneStr, title |-> NoText, summary |-> NoText, dates |-> NoDates] :
        i \in {"A", "B"}}
    \cup
    {[id |-> NoneStr, link |-> "C", title |-> <<"T">>, summary |-> NoText, dates |-> NoDates],
     [id |-> NoneStr, link |-> NoneStr, title |-> <<"T">>, summary |-> NoText, dates |-> NoDates],
     [id |-> NoneStr, link |-> NoneStr, title |-> NoText, summary |-> <<"T">>, dates |-> NoDates],
     [id |-> NoneStr, link |-> NoneStr, title |-> NoText, summary |-> NoText, dates |-> NoDates]}

MergeLists == UNION {[1..n -> MergeEntrySet] : n \in 1..MaxEntries}

MergeInfos ==
    {i \in InfosOver(MergeLists) : i.status = "200" /\ i.etag = NoneStr}

\* Planet.run() of a new process for this channel, the fetch giving info.
RunMerge(info) ==
    LET c0 == Channel(cache, ConfiguredUrl)
        u == update(cache, c0, files, info, now, nfi)
    IN
    /\ Bounded(u.ch)
    /\ cache' = u.cache
    /\ ch' = u.ch
    /\ files' = u.files
    /\ last' = [op |-> IF update_raises(info) THEN "run_raised" ELSE "run_update",
                feed |-> FeedIds(info.entries), before |-> cache]
    /\ pending' = 0
    /\ UNCHANGED <<now, nfi, planet, returned, store, record, batch>>

NextMerge == \E info \in MergeInfos : RunMerge(info)

SpecMerge == Init /\ [][NextMerge]_vars

\* C21: when update_entries raises while it merges a feed, the channel's
\* store is as it was before the update began, and the items the channel
\* object holds, and gives to Planet.items, are those the store held.
C21_MergeFailureAtomic ==
    last.op = "run_raised" =>
        /\ cache = last.before
        /\ ch.items = Channel(last.before, ConfiguredUrl).items

\* The part of C21 about the store: an update that raises leaves it as it was.
RaiseLeavesStore ==
    last.op = "run_raised" => cache = last.before

\* C27: update_entries gives every entry the first available of its id, its
\* link, and an id made of the channel url and the hash of its title or of
\* its summary; an entry with none of these is dropped and every other entry
\* of the feed is merged: no entry makes update_entries raise.
C27_StableId ==
    \A E \in MergeLists :
        LET c == update_entries(cache, ch, E, now, nfi)
        IN /\ FirstRaise(E) = 0
           /\ \A k \in 1..Len(E) :
                (E[k].id # NoneStr \/ E[k].link # NoneStr) =>
                    (IF E[k].id # NoneStr THEN E[k].id ELSE E[k].link)
                        \in DOMAIN c.items \cup Range(c.expired)

\* The part of C27 about ids, links and entries with nothing: when no entry
\* of the feed has only a title or a summary, each entry is merged under its
\* id, else under its link, and an entry with neither is dropped.
IdThenLink ==
    \A E \in {L \in MergeLists : FirstRaise(L) = 0} :
        LET c == update_entries(cache, ch, E, now, nfi)
            expected == {IF E[k].id # NoneStr THEN E[k].id ELSE E[k].link :
                            k \in {j \in 1..Len(E) :
                                E[j].id # NoneStr \/ E[j].link # NoneStr}}
        IN /\ expected \subseteq DOMAIN c.items \cup Range(c.expired)
           /\ DOMAIN c.items \cup Range(c.expired)
                = DOMAIN ch.items \cup Range(ch.expired) \cup expected

\* ------------------------------------------------------ the expiration sweep

\* The items update_entries ranks in its sweep, seen from outside: those of
\* the channel c it leaves and those of `old` it removed, their dates read.
Swept(old, c, tnow) ==
    [i \in DOMAIN old \cup DOMAIN c.items |->
        IF i \in DOMAIN c.items THEN c.items[i] ELSE get_date(old[i], tnow).item]

\* feed_count when the sweep comes to item x: the entries taken, less the
\* visible items of the feed that sort newer than x.
Remaining(all, E, x, tnow) ==
    Taken(E) - Cardinality({j \in FeedIds(E) :
                    Visible(all, j) /\ KeyLess(all, x, j, tnow)})

\* C22 as stated: an existing item that is not in the feed and that the
\* sweep comes to once the remaining count has reached zero is removed from
\* the active set, unless the status is 226.
C22_RemovesAfterZero ==
    Callable =>
    \A E \in EntryLists :
        LET c == update_entries(cache, ch, E, now, nfi)
            all == Swept(ch.items, c, now)
        IN \A x \in DOMAIN ch.items \ FeedIds(E) :
            (/\ Taken(E) > 0
             /\ Visible(ch.items, x)
             /\ Remaining(all, E, x, now) = 0
             /\ get(c.rec, "url_status") # "226") => x \notin DOMAIN c.items

\* C22 amended: the sweep goes through the visible items newest first, its
\* count starting at the number of entries taken and going down by one at
\* each item of the feed; it removes an item that is not in the feed, and
\* queues it for deletion from the store, exactly when the count is still
\* at least one there and the status is not 226. Hidden items and the items
\* it would come to once the count is zero stay.
C22_RemovesBeforeZero ==
    Callable =>
    \A E \in EntryLists :
        LET c == update_entries(cache, ch, E, now, nfi)
            all == Swept(ch.items, c, now)
        IN \A x \in DOMAIN ch.items \ FeedIds(E) :
            /\ (x \notin DOMAIN c.items) <=>
                    /\ Visible(ch.items, x)
                    /\ Remaining(all, E, x, now) >= 1
                    /\ get(c.rec, "url_status") # "226"
            /\ (x \notin DOMAIN c.items) <=>
                    (x \in Range(c.expired) /\ x \notin Range(ch.expired))

\* update_entries has just removed an item the feed left out and kept
\* another, visible one: the count was zero when the sweep came to it.
C22_Witness ==
    /\ last.op = "update_entries"
    /\ get(ch.rec, "url_status") # "226"
    /\ Range(ch.expired) # {}
    /\ \E y \in DOMAIN ch.items \ last.feed : Visible(ch.items, y)

\* The item x sorts older than every item of the feed E.
OlderThanFeed(all, E, x, tnow) ==
    \A j \in FeedIds(E) : KeyLess(all, x, j, tnow)

\* C23: an item of the channel that sorts older than all the items of the
\* feed stays active after update_entries; the items removed are missing
\* from the feed and sort among or above its items.
C23_RecentWindow ==
    Callable =>
    \A E \in EntryLists :
        LET c == update_entries(cache, ch, E, now, nfi)
            all == Swept(ch.items, c, now)
        IN \A x \in DOMAIN ch.items :
            /\ (x \notin FeedIds(E) /\ OlderThanFeed(all, E, x, now))
                    => x \in DOMAIN c.items
            /\ x \notin DOMAIN c.items
                    => (x \notin FeedIds(E) /\ ~OlderThanFeed(all, E, x, now))

\* The entries of E have ids, each its own, and their items are visible
\* after the merge.
PlainWindow(c, E) ==
    /\ \A k \in 1..Len(E) : entry_id(E[k]) # NoneStr
    /\ \A j, k \in 1..Len(E) : j # k => entry_id(E[j]) # entry_id(E[k])
    /\ \A i \in FeedIds(E) : Visible(c.items, i)

\* C23 for feeds whose entries have ids of their own and visible items.
RecentWindowPlain ==
    Callable =>
    \A E \in EntryLists :
        LET c == update_entries(cache, ch, E, now, nfi)
            all == Swept(ch.items, c, now)
        IN PlainWindow(c, E) =>
            \A x \in DOMAIN ch.items :
                /\ (x \notin FeedIds(E) /\ OlderThanFeed(all, E, x, now))
                        => x \in DOMAIN c.items
                /\ x \notin DOMAIN c.items
                        => (x \notin FeedIds(E) /\ ~OlderThanFeed(all, E, x, now))

\* -------------------------------------------------------- order assignment

RECURSIVE NewIds(_, _, _)
\* The ids of the entries of E from the i-th on that are not in `known`, in
\* the order in which the feed first has them.
NewIds(E, known, i) ==
    IF i > Len(E) THEN <<>>
    ELSE LET id == entry_id(E[i]) IN
         IF id = NoneStr \/ id \in known THEN NewIds(E, known, i + 1)
         ELSE <<id>> \o NewIds(E, known \cup {id}, i + 1)

\* C24: one update_entries call gives the k items it creates the orders
\* next_order + 1 .. next_order + k, the one that is last in the feed the
\* smallest; the items that existed keep their order; next_order grows by k.
C24_OrderAssignment ==
    Callable =>
    \A E \in EntryLists :
        LET c == update_entries(cache, ch, E, now, nfi)
            new == NewIds(E, DOMAIN ch.items, 1)
            k == Len(new)
            n0 == get(ch.rec, "next_order")
        IN /\ get(c.rec, "next_order") = n0 + k
           /\ \A p \in 1..k :
                /\ new[p] \in DOMAIN c.items
                /\ order(c.items[new[p]]) = n0 + (k - p) + 1
           /\ \A x \in DOMAIN ch.items \cap DOMAIN c.items :
                order(c.items[x]) = order(ch.items[x])

\* update_entries has just created two items next to one that existed: the
\* two have the two highest orders and the old one has kept its own.
C24_Witness ==
    /\ last.op = "update_entries"
    /\ get(ch.rec, "next_order") = 3
    /\ \E x \in DOMAIN ch.items \ last.feed : order(ch.items[x]) = 1
    /\ \E a, b \in last.feed \cap DOMAIN ch.items :
        order(ch.items[a]) = 2 /\ order(ch.items[b]) = 3

\* ------------------------------------------- a channel late in its lifetime
\* Planet.items and Channel.items over one channel that has created up to
\* eleven items and still holds two of them.

\* The orders of the two items: str(int(next_order) + 1) at their creation.
LifetimeOrders == {1, 2, 9, 10, 11}

LifetimeHoldings ==
    {[items |-> ("A" :> PlanetItem(d[1], o[1], FALSE, <<"X">>))
                    @@ ("B" :> PlanetItem(d[2], o[2], FALSE, <<"X">>)),
      keys |-> k] :
        o \in {p \in LifetimeOrders \X LifetimeOrders : p[1] # p[2]},
        d \in {0, MaxTime} \X {0, MaxTime},
        k \in {<<"A", "B">>, <<"B", "A">>}}

\* The channel loaded from a store that holds h.
LifetimeChannel(h) ==
    LET r0 == Channel([k \in {} |-> 0], ConfiguredUrl).rec
        top == IF order(h.items["A"]) > order(h.items["B"])
               THEN order(h.items["A"]) ELSE order(h.items["B"])
        r1 == set_as_string(
                  set_as_date(set_as_string(r0, "name", <<"a">>), "updated", MaxTime),
                  "next_order", top)
    IN [rec |-> r1, items |-> h.items, keys |-> h.keys]

LifetimePlanets ==
    {[channels |-> <<LifetimeChannel(h)>>, filter |-> NoneStr, exclude |-> NoneStr] :
        h \in LifetimeHoldings}

InitLifetime ==
    /\ cache = [k \in {} |-> 0]
    /\ ch = Channel(cache, ConfiguredUrl)
    /\ files = {ConfiguredUrl}
    /\ now = MaxTime
    /\ nfi = MaxThreshold
    /\ last = Op("init", {})
    /\ pending = 0
    /\ planet \in LifetimePlanets
    /\ returned = NotAsked
    /\ store = [k \in {} |-> 0]
    /\ record = new_record("A")
    /\ batch = NoBatch

NextLifetime ==
    \E hidden, sorted \in BOOLEAN : Items(hidden, sorted, 0, 0, <<>>)

SpecLifetime == InitLifetime /\ [][NextLifetime]_vars

\* Both sorted views of the first channel have the items of one date in
\* the order `first` requires of their orders.
TieBreak(first(_, _)) ==
    /\ (returned.asked /\ returned.sorted) =>
        \A j, k \in 1..Len(returned.list) :
            (j < k /\ item_time(planet, returned.list[j])
                        = item_time(planet, returned.list[k])) =>
                first(order(item_of(planet, returned.list[j])),
                      order(item_of(planet, returned.list[k])))
    /\ LET updated == get(planet.channels[1].rec, "updated")
           r == channel_items(planet.channels[1].items, FALSE, updated)
       IN \A j, k \in 1..Len(r.list) :
            (j < k /\ time_since_epoch(r.items[r.list[j]], updated)
                        = time_since_epoch(r.items[r.list[k]], updated)) =>
                first(order(r.items[r.list[j]]), order(r.items[r.list[k]]))

\* C25: of two items of a channel with the same date, Channel.items and
\* Planet.items (sorted) give the one with the numerically larger order
\* first, however many items the channel has created.
C25_CreationOrderTieBreak == TieBreak(LAMBDA a, b : a > b)

\* What the two views do: the order that is larger as a text comes first,
\* which is the numerically larger one when both have as many digits.
TieBreakAsText ==
    TieBreak(LAMBDA a, b : OrderLess(b, a) /\ (Len(Digits(a)) = Len(Digits(b)) => a > b))

\* ------------------------------------------------------ writing the channel

\* C26: Channel.cache_write() writes every active item without sync, then
\* clears every expired item, then writes the channel's record with sync;
\* the store it leaves is the one these calls give, and the expired queue is
\* empty when it returns.
C26_PersistOrdering ==
    LET ops == cache_write_ops(ch, TRUE)
        n == Cardinality(DOMAIN ch.items)
        m == Len(ch.expired)
        w == cache_write(cache, ch)
    IN /\ Len(ops) = n + m + 1
       /\ {ops[k].id : k \in 1..n} = DOMAIN ch.items
       /\ \A k \in 1..n : ops[k].op = "cache_write" /\ ~ops[k].sync
       /\ \A k \in 1..m :
            ops[n + k] = [op |-> "cache_clear", id |-> ch.expired[k], sync |-> FALSE]
       /\ ops[n + m + 1] = [op |-> "cache_write", id |-> Root, sync |-> TRUE]
       /\ w.cache = ApplyOps(cache, ch, ops, 1)
       /\ w.ch.expired = <<>>
       /\ w.ch.items = ch.items

\* cache_write has just written a channel with an active item and cleared
\* an expired one: the store holds the channel's record and its active
\* items, fewer than the channel has created.
C26_Witness ==
    /\ last.op = "cache_write"
    /\ ch.expired = <<>>
    /\ DOMAIN ch.items # {}
    /\ DOMAIN cache = DOMAIN ch.items \cup {Root}
    /\ cache[Root] = ch.rec
    /\ get(ch.rec, "next_order") > Cardinality(DOMAIN ch.items)

\* ------------------------------------------------------- reading the date
\* item.get_date("date") on an item A as NewsItem.update leaves it before it
\* reads the date: new or with a date from an earlier update, and with the
\* dates the entry claims, in a channel that has been updated.

\* The dates an entry may claim, under any of the five keys.
ClaimedDates ==
    UNION {[S -> {0, 2}] : S \in SUBSET Range(DateKeys)}

\* The item before the entry's dates are set: new, or with a cached date.
DatedItems ==
    {NewsItem([k \in {} |-> 0], "A")}
    \cup {set_as_string(set_as_date([k \in {} |-> 0], "date", d), "order", 1) :
            d \in {0, 1}}

InitDate ==
    /\ cache = [k \in {} |-> 0]
    /\ \E u \in {1, 3} : \E base \in DatedItems : \E dates \in ClaimedDates :
        ch = [rec |-> set_as_date(Channel(cache, ConfiguredUrl).rec, "updated", u),
              items |-> ("A" :> SetDates(base, dates, DOMAIN dates)),
              expired |-> <<>>]
    /\ files = {ConfiguredUrl}
    /\ now = 0
    /\ nfi = 0
    /\ last = Op("init", {})
    /\ pending = 0
    /\ planet = NoPlanet
    /\ returned = NotAsked
    /\ store = [k \in {} |-> 0]
    /\ record = new_record("A")
    /\ batch = NoBatch

\* item.get_date("date") on the item A.
GetDate ==
    LET r == get_date(ch.items["A"], get(ch.rec, "updated")) IN
    /\ ch' = [ch EXCEPT !.items = ("A" :> r.item)]
    /\ last' = [op |-> "get_date", feed |-> {}, before |-> ch.items["A"],
                date |-> r.date]
    /\ UNCHANGED <<cache, files, now, nfi, pending, planet, returned, store, record,
                   batch>>

NextDate == GetDate

SpecDate == InitDate /\ [][NextDate]_vars

\* The claimed dates the item has, as their places in the order of preference.
Claims(item) == {i \in 1..Len(DateKeys) : has_key(item, DateKeys[i])}

BothSet(rec) ==
    key_type(rec, "updated") = DATE_T /\ key_type(rec, "last_updated") = DATE_T

\* C29: an update_entries call with at least one entry sets last_updated to
\* what updated was before the call and updated to the time of the fetch;
\* whenever both are set, last_updated <= updated.
C29_UpdateTimestamps ==
    /\ BothSet(ch.rec) => get(ch.rec, "last_updated") <= get(ch.rec, "updated")
    /\ Callable =>
        \A E \in EntryLists :
            Len(E) > 0 =>
            LET c == update_entries(cache, ch, E, now, nfi)
            IN /\ get(c.rec, "last_updated") = get(ch.rec, "updated")
               /\ key_type(c.rec, "last_updated") = key_type(ch.rec, "updated")
               /\ key_type(c.rec, "updated") = DATE_T
               /\ get(c.rec, "updated") = now

\* update_entries has just been called a second time, later than the first:
\* last_updated is the time of the first call and updated that of the second.
C29_Witness ==
    /\ last.op = "update_entries"
    /\ BothSet(ch.rec)
    /\ get(ch.rec, "last_updated") < get(ch.rec, "updated")
    /\ get(ch.rec, "updated") = now

\* ------------------------------------------------- hiding on the first sync

\* The ids of the entries of E that update_entries takes, in feed order.
ProcessedIds(E) ==
    SelectSeq([k \in 1..Len(E) |-> entry_id(E[k])], LAMBDA i : i # NoneStr)

\* update_entries has hidden x: c has it hidden, and the channel did not
\* have it or had it visible.
HiddenByCall(old, c, x) ==
    /\ x \in DOMAIN c.items
    /\ ~Visible(c.items, x)
    /\ x \in DOMAIN old => Visible(old, x)

\* C30: update_entries hides an item only when the channel had no updated
\* time before the call and new_feed_items is t > 0, and then only an item
\* it created from an entry after the first t it took: an item created from
\* one of the first t entries is not hidden, and a call on a channel that
\* has been updated hides nothing.
C30_HidingOnlyBeyondThreshold ==
    Callable =>
    \A E \in EntryLists :
        LET c == update_entries(cache, ch, E, now, nfi)
            ids == ProcessedIds(E)
        IN \A x \in DOMAIN c.items :
            HiddenByCall(ch.items, c, x) =>
                /\ get(ch.rec, "updated") = None
                /\ nfi > 0
                /\ x \notin DOMAIN ch.items
                /\ \A k \in 1..Len(ids) : ids[k] = x => k > nfi

\* What the code does: on the first synchronisation with t > 0 it hides the
\* item of every entry it takes after the first t, whether that entry
\* created the item or an earlier entry of the feed did; otherwise nothing.
HidingByPosition ==
    Callable =>
    \A E \in EntryLists :
        LET c == update_entries(cache, ch, E, now, nfi)
            ids == ProcessedIds(E)
        IN \A x \in DOMAIN c.items :
            HiddenByCall(ch.items, c, x) <=>
                /\ get(ch.rec, "updated") = None
                /\ nfi > 0
                /\ x \in DOMAIN ch.items => Visible(ch.items, x)
                /\ \E k \in 1..Len(ids) : ids[k] = x /\ k > nfi

\* ------------------------------------------------------- the empty feed

\* C39: update_entries called with an empty entry list changes nothing: the
\* channel's updated, last_updated and next_order, its active set, every
\* item's fields and the queue of expired items are as they were, at whatever
\* time the call is made.
C39_EmptyFeedNoOp ==
    Callable =>
    \A t \in now..MaxTime :
        LET c == update_entries(cache, ch, <<>>, t, nfi)
        IN /\ c.rec = ch.rec
           /\ c.items = ch.items
           /\ c.expired = ch.expired

\* update_entries has been called with no entry on a channel that was never
\* updated, and later than the channel was made: it still has no updated time.
C39_Witness ==
    /\ last = Op("update_entries", {})
    /\ pending = 1
    /\ now > 0
    /\ get(ch.rec, "updated") = None
    /\ DOMAIN ch.items = {}

\* ------------------------------------------------- the orders of a channel

\* No two active items have the same order, and int(next_order) is at least
\* the order of each.
OrdersDistinct(c) ==
    /\ \A i, j \in DOMAIN c.items :
        i # j => order(c.items[i]) # order(c.items[j])
    /\ \A i \in DOMAIN c.items :
        /\ key_type(c.items[i], "order") = STRING_T
        /\ order(c.items[i]) <= get(c.rec, "next_order")

\* A step leaves next_order as it is or makes it larger.
NextOrderGrows == get(ch'.rec, "next_order") >= get(ch.rec, "next_order")

Unhidden(c) ==
    [c EXCEPT !.items = [i \in DOMAIN c.items |-> del_key(c.items[i], "hidden")]]

\* C38: the sweep of update_entries treats hidden items like visible ones: on
\* a channel that has been updated before (so that the call hides nothing
\* itself), the items a call removes and those it keeps are the same as on
\* the channel with the same items all visible, whether the hidden items are
\* in the feed (and take one from the remaining-count) or not (and are
\* removed like a visible item in their place).
C38_HiddenSweptLikeVisible ==
    (Callable /\ get(ch.rec, "updated") # None) =>
    \A E \in EntryLists :
        LET c == update_entries(cache, ch, E, now, nfi)
            v == update_entries(cache, Unhidden(ch), E, now, nfi)
        IN /\ DOMAIN c.items = DOMAIN v.items
           /\ c.expired = v.expired

\* What the code does: an item that is hidden when update_entries is called
\* is never removed by it, whatever the feed.
HiddenItemsStay ==
    Callable =>
    \A E \in EntryLists :
        LET c == update_entries(cache, ch, E, now, nfi)
        IN \A i \in DOMAIN ch.items :
            ~Visible(ch.items, i) =>
                i \in DOMAIN c.items /\ i \notin Range(c.expired) \ Range(ch.expired)

\* ------------------------------------------------------ the channel subset

\* C40: when Planet.items is given a list S of channels, every item it
\* returns belongs to a channel of S, for every S, the empty list included
\* (for which nothing is returned).  The empty list is the <<>> of the model:
\* `if not channels` holds of it as it does of None.
C40_ChannelSubset ==
    returned.asked =>
    \A k \in 1..Len(returned.list) :
        returned.list[k][1] \in Range(returned.channels)

\* What the code does: a list that names a channel is respected, and the
\* call with the empty list goes through the channels of the call with none.
SubsetOrDefault ==
    returned.asked =>
    \A k \in 1..Len(returned.list) :
        /\ returned.list[k][1] \in Range(Iterated)
        /\ returned.channels # <<>> => returned.list[k][1] \in Range(returned.channels)

\* ------------------------------------------------- dates out of the range
\* Planet.items and Channel.items over one channel that holds two items,
\* with dates before the epoch, at it, after it, and before every time
\* time.mktime has a value for.

EpochDates == {EpochMin - 1, EpochMin, EpochMin + 1, 0, MaxTime}

EpochHoldings ==
    {[items |-> ("A" :> PlanetItem(d[1], o[1], FALSE, <<"X">>))
                    @@ ("B" :> PlanetItem(d[2], o[2], FALSE, <<"X">>)),
      keys |-> k] :
        o \in {<<1, 2>>, <<2, 1>>},
        d \in EpochDates \X EpochDates,
        k \in {<<"A", "B">>, <<"B", "A">>}}

EpochPlanets ==
    {[channels |-> <<LifetimeChannel(h)>>, filter |-> NoneStr, exclude |-> NoneStr] :
        h \in EpochHoldings}

InitEpoch ==
    /\ cache = [k \in {} |-> 0]
    /\ ch = Channel(cache, ConfiguredUrl)
    /\ files = {ConfiguredUrl}
    /\ now = MaxTime
    /\ nfi = MaxThreshold
    /\ last = Op("init", {})
    /\ pending = 0
    /\ planet \in EpochPlanets
    /\ returned = NotAsked
    /\ store = [k \in {} |-> 0]
    /\ record = new_record("A")
    /\ batch = NoBatch

NextEpoch ==
    \E hidden, sorted \in BOOLEAN : Items(hidden, sorted, 0, 0, <<>>)

SpecEpoch == InitEpoch /\ [][NextEpoch]_vars

\* The date of x is outside the range time.mktime has a value for.
OutOfRange(P, x) == ~Representable(get(item_of(P, x), "date"))

\* C33: an item whose date is outside the representable range has a
\* time_since_epoch (the read does not raise) that is no greater than that of
\* any item with a representable date, and in a sorted view it comes before
\* such an item only when the two have the same time_since_epoch.
C33_OutOfRangeOldest ==
    LET all == {<<1, i>> : i \in DOMAIN planet.channels[1].items} IN
    /\ \A x, y \in all :
        (OutOfRange(planet, x) /\ ~OutOfRange(planet, y)) =>
            item_time(planet, x) <= item_time(planet, y)
    /\ (returned.asked /\ returned.sorted) =>
        \A j, k \in 1..Len(returned.list) :
            (j < k /\ OutOfRange(planet, returned.list[j])
                   /\ ~OutOfRange(planet, returned.list[k])) =>
                item_time(planet, returned.list[j]) = item_time(planet, returned.list[k])

\* What the code does: the item out of the range has the time_since_epoch
\* of the epoch itself, 0.0, and so is no newer than the items dated at the
\* epoch or after it.
OutOfRangeAsEpoch ==
    LET all == {<<1, i>> : i \in DOMAIN planet.channels[1].items} IN
    /\ \A x \in all : OutOfRange(planet, x) => item_time(planet, x) = 0
    /\ \A x, y \in all :
        (OutOfRange(planet, x) /\ get(item_of(planet, y), "date") >= 0
            /\ ~OutOfRange(planet, y)) =>
            item_time(planet, x) <= item_time(planet, y)
    /\ (returned.asked /\ returned.sorted) =>
        \A j, k \in 1..Len(returned.list) :
            j < k => item_time(planet, returned.list[j]) >= item_time(planet, returned.list[k])

\* ------------------------------------------- interrupted while writing
\* update_entries and cache_write on one channel, in a process that may be
\* interrupted while it is in cache_write: the calls cache_write has made on
\* the store by then stay, the others are never made, and the next process
\* constructs the channel from what the store holds.

\* The process ends after the first n calls of channel.cache_write(); the
\* channel is constructed again from the store.
Crash(n) ==
    LET ops == cache_write_ops(ch, TRUE)
        c1 == ApplyOps(cache, ch, SubSeq(ops, 1, n), 1)
    IN
    /\ n < Len(ops)
    /\ cache' = c1
    /\ ch' = Channel(c1, ConfiguredUrl)
    /\ last' = Op("crash", {})
    /\ pending' = 0
    /\ UNCHANGED <<files, now, nfi, planet, returned, store, record, batch>>

NextCrash ==
    \/ \E e \in FeedLists : UpdateEntries(e)
    \/ CacheWrite
    \/ \E n \in 0..(2 * MaxOrder) : Crash(n)

SpecCrash == Init /\ [][NextCrash]_vars

\* The channel a new process constructs from the store has next_order at
\* least the order of each of its items, and the items update_entries then
\* creates get orders that no item of the channel has.
ReloadConsistent ==
    LET c == Channel(cache, ConfiguredUrl) IN
    /\ \A i \in DOMAIN c.items : order(c.items[i]) <= get(c.rec, "next_order")
    /\ \A E \in EntryLists :
        LET d == update_entries(cache, c, E, now, nfi)
        IN \A i, j \in DOMAIN d.items :
            i # j => order(d.items[i]) # order(d.items[j])

\* C35: if the process is interrupted at any point during
\* Channel.cache_write, the channel reloaded from the store is consistent:
\* the stored next_order is at least the order of every stored item, so that
\* the orders given after the restart are those of no stored item.
C35_CrashConsistency == ReloadConsistent

\* ------------------------------------------- several calls before a write
\* update_entries called on one channel up to twice between two cache_write
\* calls, with feeds of the ids A and B.

MirrorFeeds ==
    UNION {[1..n -> {x \in Entries : x.id \in {"A", "B"} /\ x.dates = NoDates}] :
            n \in 1..MaxEntries}

\* channel.update_entries(entries), called on the object when fewer than
\* MaxPending + 1 calls have been made since it was last written.
UpdateEntriesUnwritten(entries) ==
    LET c == update_entries(cache, ch, entries, now, nfi) IN
    /\ pending < MaxPending + 1
    /\ Bounded(c)
    /\ ch' = c
    /\ last' = Op("update_entries", FeedIds(entries))
    /\ pending' = pending + 1
    /\ UNCHANGED <<cache, files, now, nfi, planet, returned, store, record, batch>>

NextMirror ==
    \/ \E e \in MirrorFeeds : UpdateEntriesUnwritten(e)
    \/ CacheWrite

SpecMirror == Init /\ [][NextMirror]_vars

\* Every active item is stored with the fields it has, and nothing is stored
\* of any other id.
MirrorsActive ==
    /\ \A i \in DOMAIN ch.items : i \in DOMAIN cache /\ cache[i] = ch.items[i]
    /\ \A i \in Ids \ DOMAIN ch.items : i \notin DOMAIN cache

\* C37: after any sequence of update_entries calls, with or without a
\* cache_write between them, followed by cache_write, every item of the
\* channel's active set has its fields in the store and every id that is not
\* in the active set has none.
C37_StoreMirrorsActive == last.op = "cache_write" => MirrorsActive

\* ------------------------------------------------------- feeds that move
\* Planet.run() over the sections u1 and u2 with the files of the cache
\* directory: batch.names gives, for the file name of each url, the file it
\* names (0 when there is none), batch.disk the store each file holds and
\* batch.open the file each channel subscribed in this run has opened.  A
\* fetch may answer 301 with the url the feed has moved to; os.link may fail
\* for reasons outside the program.

MovedInfos ==
    {i \in RunInfos : i.status \in {"200", "301"} /\ i.etag = NoneStr
                        /\ i.feed.title = NoText}

InitMoved ==
    /\ cache = [k \in {} |-> 0]
    /\ ch = Channel(cache, ConfiguredUrl)
    /\ files = {ConfiguredUrl}
    /\ now = 0
    /\ nfi = MaxThreshold
    /\ last = Op("init", {})
    /\ pending = 0
    /\ planet = NoPlanet
    /\ returned = NotAsked
    /\ store = [k \in {} |-> 0]
    /\ record = new_record("A")
    /\ batch = [pos |-> 1, ended |-> FALSE, open |-> <<>>,
                names |-> [u \in Urls |-> 0],
                disk |-> [f \in 1..Len(Sections) |-> [k \in {} |-> 0]]]

\* A new process calls Planet.run().
StartMoved ==
    /\ batch.ended
    /\ batch' = [batch EXCEPT !.pos = 1, !.ended = FALSE, !.open = <<>>]
    /\ last' = Op("run", {})
    /\ UNCHANGED <<cache, ch, files, now, nfi, pending, planet, returned, store, record>>

\* shelve.open(cache_filename, "c"): the file of that name, a new one when
\* there is none.
OpenedFile(names, url) ==
    IF names[url] # 0 THEN names[url]
    ELSE CHOOSE f \in 1..Len(Sections) :
            /\ \A u \in DOMAIN names : names[u] # f
            /\ \A g \in 1..(f - 1) : \E u \in DOMAIN names : names[u] = g

\* os.link(filename(src), filename(dst)) can succeed: src names a file and
\* dst names none.
CanLink(names, src, dst) == names[src] # 0 /\ names[dst] = 0

\* One turn of the loop of Planet.run(): Channel(self, feed_url), subscribe,
\* channel.update() with the fetch giving info; linked tells whether the
\* os.link of a moved feed succeeds.
RunMoved(info, linked) ==
    LET url == Sections[batch.pos]
        f == OpenedFile(batch.names, url)
        names1 == [batch.names EXCEPT ![url] = f]
        st == batch.disk[f]
        c0 == Channel(st, url)
        moved == url_status_of(info) = "301" /\ Len(info.entries) > 0
        u == update(st, c0, {url}, info, now, nfi)
        src == get(c0.rec, "url")
    IN
    /\ ~batch.ended
    /\ get(c0.rec, "url_status") # "410"
    /\ linked => (moved /\ CanLink(names1, src, info.url))
    /\ Bounded(u.ch)
    /\ ch' = u.ch
    /\ batch' = [batch EXCEPT
            !.pos = @ + 1,
            !.ended = batch.pos = Len(Sections),
            !.open = Append(@, [url |-> url, file |-> f]),
            !.names = IF linked THEN [names1 EXCEPT ![info.url] = names1[src]]
                      ELSE names1,
            !.disk = [@ EXCEPT ![f] = u.cache]]
    /\ last' = [op |-> "run_section", feed |-> FeedIds(info.entries), url |-> url,
                moved |-> moved, linked |-> linked, info |-> info, before |-> st]
    /\ UNCHANGED <<cache, files, now, nfi, pending, planet, returned, store, record>>

NextMoved ==
    \/ StartMoved
    \/ \E info \in MovedInfos : \E linked \in BOOLEAN : RunMoved(info, linked)

SpecMoved == InitMoved /\ [][NextMoved]_vars

\* C31: when update() gets status 301 with at least one entry, the channel's
\* url becomes the new url, the items and the record are those a fresh
\* update (status 200) with the same entries leaves, so that the items
\* cached under the old url stay unless the sweep removes them, the channel
\* is written, and the channel constructed next from the store of its
\* configured url has the same items and the new url.
C31_MovedFeed ==
    (last.op = "run_section" /\ last.moved) =>
    LET c0 == Channel(last.before, last.url)
        fresh == update(last.before, c0, {last.url},
                        [last.info EXCEPT !.status = "200"], now, nfi).ch
        again == Channel(batch.disk[batch.names[last.url]], last.url)
    IN /\ get(ch.rec, "url") = last.info.url
       /\ ch.items = fresh.items
       /\ \A k \in DOMAIN ch.rec \ {"url", "url_status"} : ch.rec[k] = fresh.rec[k]
       /\ ch.expired = <<>>
       /\ again.items = ch.items
       /\ again.rec = ch.rec

\* The feed of u1, which held A, has moved to u2 with an entry B: the
\* channel holds A and B under the url u2, and so does its store.
C31_Witness ==
    /\ last.op = "run_section"
    /\ last.moved
    /\ last.url = "u1"
    /\ last.info.url = "u2"
    /\ last.feed = {"B"}
    /\ DOMAIN Channel(last.before, "u1").items = {"A"}
    /\ DOMAIN ch.items = {"A", "B"}
    /\ get(ch.rec, "url") = "u2"
    /\ DOMAIN batch.disk[batch.names["u1"]] = {Root, "A", "B"}

\* C34: no two distinct channels subscribed in a run read and write the
\* same physical store, also after a feed has moved and its store has been
\* linked under the new name.
C34_StoreIndependence ==
    \A i, j \in 1..Len(batch.open) :
        i # j => batch.open[i].file # batch.open[j].file

\* ------------------------------------------------- stores that do not load
\* Each step is a Planet.run() of a new process for the configured feed.
\* The store may raise SystemError while the channel is constructed: at
\* "record" while cache_read() loads the channel's own record, at "entries"
\* while cache_read_entries() loads the items, after those of `kept`.

LoadInfos == {i \in RunInfos : i.status \in {"200", "304", "410"}}

\* What update() sends with the fetch: self.url_etag and self.url_modified.
Sent(rec) == [etag |-> get(rec, "url_etag"), modified |-> get(rec, "url_modified")]

Unconditional == [etag |-> NullValue("url_etag"), modified |-> NullValue("url_modified")]

\* Planet.run() for the configured channel, the store raising at `at`.
RunLoad(info, at, kept) ==
    LET c0 == IF at = "entries" THEN ChannelCorrupt(cache, ConfiguredUrl, kept)
              ELSE Channel(cache, ConfiguredUrl)
        called == get(c0.rec, "url_status") # "410"
        u == IF called THEN update(cache, c0, files, info, now, nfi)
             ELSE [cache |-> cache, ch |-> c0, files |-> files]
    IN
    /\ at # "none" => DOMAIN cache # {}
    /\ at # "entries" => kept = {}
    /\ at = "record" \/ Bounded(u.ch)
    /\ cache' = IF at = "record" THEN cache ELSE u.cache
    /\ ch' = IF at = "record" THEN ch ELSE u.ch
    /\ last' = [op |-> "run_construct", feed |-> {}, at |-> at,
                raised |-> at = "record",
                subscribed |-> at # "record",
                called |-> at # "record" /\ called,
                sent |-> IF at # "record" /\ called THEN Sent(c0.rec) ELSE Unconditional,
                stored |-> IF Root \in DOMAIN cache THEN Sent(cache[Root]) ELSE Unconditional]
    /\ pending' = 0
    /\ UNCHANGED <<files, now, nfi, planet, returned, store, record, batch>>

NextLoad ==
    \E info \in LoadInfos : \E at \in {"none", "record", "entries"} :
        \E kept \in SUBSET {"A", "B"} : RunLoad(info, at, kept)

SpecLoad == Init /\ [][NextLoad]_vars

\* The construction has succeeded, the channel is subscribed, and the fetch
\* of its update, when it is not gone, is sent with neither etag nor
\* last-modified.
Recovered ==
    /\ ~last.raised
    /\ last.subscribed
    /\ last.sent = Unconditional

\* C32: if loading the channel's cached records fails with a corruption
\* error of the store while the channel is constructed, the construction
\* still succeeds, etag and last-modified are reset so that the next update()
\* fetches unconditionally, and the run goes on with that channel.
C32_CorruptionRecoverable ==
    (last.op = "run_construct" /\ last.at # "none") => Recovered

\* What the code keeps: a SystemError while the items are loaded is
\* recovered from, and the update is called unless the channel is gone.
EntriesRecoverable ==
    (last.op = "run_construct" /\ last.at = "entries") =>
        /\ Recovered
        /\ last.called \/ get(ch.rec, "url_status") = "410"

\* The store held an etag, the items did not load, and the update was sent
\* without it.
EntriesRecovered ==
    /\ last.op = "run_construct"
    /\ last.at = "entries"
    /\ last.stored.etag = "e1"
    /\ last.called
    /\ last.sent = Unconditional

====
